---------------------------- MODULE Spec2Model ----------------------------
(***************************************************************************)
(* A model of the emulation harness of rustpush (src/src/emulated):        *)
(* jelly.rs (the machine: Jelly, VirtualInstruction, the Hook trait) and   *)
(* nac.rs (the loader, the hook table and the hook implementations).       *)
(*                                                                         *)
(* A u64 is a Word: its eight bytes, least significant first (the order    *)
(* of u64::to_le_bytes), so that 64-bit arithmetic keeps its width.        *)
(* Emulated memory is byte addressed; only the bytes that differ from the  *)
(* baseline contents are stored.                                           *)
(***************************************************************************)
EXTENDS Integers, Sequences, FiniteSets, TLC

VARIABLES
    hooks,              \* Jelly.hooks: the names registered by setup
    resolved_hooks,     \* Jelly.resolved_hooks: hook-region address -> name
    mapped,             \* the regions mapped in Jelly.uc
    mem,                \* the bytes of Jelly.uc's memory that differ from Baseline
    regs,               \* the registers of Jelly.uc
    heap_size,          \* Jelly.heap_size
    cf_objects,         \* Jelly.cf_objects
    eth_iterator_hack,  \* Jelly.eth_iterator_hack
    overflow_checks,    \* the build: TRUE when integer overflow panics (debug)
    pc,                 \* "new", "ready", "emu" (inside emu_start), "panic",
                        \* or "abort" (the process ended without unwinding)
    panic_msg,          \* the message of the panic that ended the run
    last,               \* the last hook invocation: its name, arguments, result
    pre_cf,             \* cf_objects as it was when the last hook was invoked
    hist,               \* history: the names of the hooks invoked, in order
    issued,             \* history: the handles returned by the interning hooks
    allocs,             \* history: the size and address of each allocation
    emu,                \* the call() in progress and what it returned
    binary,             \* the container handed to get_x64_slice
    x64_slice,          \* what get_x64_slice made of it
    blob,               \* the bytes the emulated run hands to generate
    validation,         \* what generate_validation_data returned
    decoded,            \* what base64_decode made of that
    other,              \* a second Jelly, while this one is the one invoked
    im,                 \* the iMessage value an operation of messages.rs acts on
    calls               \* history: the invocations on this Jelly and on the other

\* the loader, the driver, the second harness instance and the messages:
\* what the operations of one Jelly leave alone
aside_vars == <<binary, x64_slice, blob, validation, decoded, other, im>>

vars == <<hooks, resolved_hooks, mapped, mem, regs, heap_size, cf_objects,
          eth_iterator_hack, overflow_checks, aside_vars, calls, pc, panic_msg, last, pre_cf,
          hist, issued, allocs, emu>>

\* the number of hook invocations so far
ncalls == Len(hist)

---------------------------------------------------------------------------
(* Bounds of the model.                                                    *)

\* hook invocations in one run of Spec (every hook, any arity)
MaxCalls == 2
\* hook invocations in one run of SpecObj (the handle-table hooks)
MaxObjCalls == 4
\* hook invocations in one run of SpecStr (the hooks that read objects out)
MaxStrCalls == 3
\* hook invocations in one run of SpecHeap (malloc and free)
MaxHeapCalls == 4
\* hook invocations in one run of SpecIter (the iterator pair)
MaxIterCalls == 6
\* instructions emulated in one run of SpecCall
MaxEmuSteps == 6
\* argument words passed to call() in SpecCall
MaxCallArgs == 8
\* hook invocations in a run of SpecResolve
MaxResolveCalls == 4

---------------------------------------------------------------------------
(* Words: u64 as eight bytes, little endian.                               *)

Byte == 0..255

\* a number below 2^31 as a u64
W(n) == [i \in 1..8 |->
            CASE i = 1 -> n % 256
              [] i = 2 -> (n \div 256) % 256
              [] i = 3 -> (n \div 65536) % 256
              [] i = 4 -> (n \div 16777216) % 256
              [] OTHER -> 0]

W0 == W(0)
MaxW == [i \in 1..8 |-> 255]

\* a u64 that fits a model integer (below 2^31)
IsSmall(w) == w[5] = 0 /\ w[6] = 0 /\ w[7] = 0 /\ w[8] = 0 /\ w[4] < 128

Val(w) == w[1] + 256 * w[2] + 65536 * w[3] + 16777216 * w[4]

RECURSIVE AddCarry(_, _, _, _)
\* bytes i..8 of a + b + carry, and the carry out of byte 8
AddCarry(a, b, i, c) ==
    IF i > 8 THEN [bytes |-> <<>>, carry |-> c]
    ELSE LET s == a[i] + b[i] + c
             r == AddCarry(a, b, i + 1, s \div 256)
         IN  [bytes |-> <<s % 256>> \o r.bytes, carry |-> r.carry]

\* u64 addition: the wrapped sum and whether it overflowed
AddW(a, b) ==
    LET r == AddCarry(a, b, 1, 0)
    IN  [w |-> r.bytes, overflow |-> r.carry = 1]

RECURSIVE SubBorrow(_, _, _, _)
SubBorrow(a, b, i, c) ==
    IF i > 8 THEN [bytes |-> <<>>, borrow |-> c]
    ELSE LET s == a[i] - b[i] - c
             r == SubBorrow(a, b, i + 1, IF s < 0 THEN 1 ELSE 0)
         IN  [bytes |-> <<(s + 256) % 256>> \o r.bytes, borrow |-> r.borrow]

\* u64 subtraction: the wrapped difference and whether it underflowed
SubW(a, b) ==
    LET r == SubBorrow(a, b, 1, 0)
    IN  [w |-> r.bytes, overflow |-> r.borrow = 1]

\* a < b as u64
LtW(a, b) == SubW(a, b).overflow

\* a <= b as u64
LeW(a, b) == ~LtW(b, a)

\* `w as u8`
AsU8(w) == w[1]

\* u64::to_le_bytes and u64::from_le_bytes / from_be_bytes on 8 bytes
to_le_bytes(w) == w
from_le_bytes(bs) == [i \in 1..8 |-> bs[i]]
from_be_bytes(bs) == [i \in 1..8 |-> bs[9 - i]]

---------------------------------------------------------------------------
(* Constants of jelly.rs.                                                  *)

HOOK_BASE == 13631488
HOOK_SIZE == 1048576
HEAP_BASE == 16384
STOP_ADDR == 9437184

ARG_REGISTERS == <<"RDI", "RSI", "RDX", "RCX", "R8", "R9">>

\* The registers the harness reads or writes.  ESP is the low half of RSP.
RegNames == {"RAX", "RDI", "RSI", "RDX", "RCX", "R8", "R9", "RSP", "RIP"}

---------------------------------------------------------------------------
(* The machine's memory.                                                   *)

HookRegion == [base |-> HOOK_BASE, size |-> HOOK_SIZE]

\* The regions the rest of the harness's environment provides: jelly.rs maps
\* the hook region only; a stack, the heap and the binary's image are what the
\* specification's data model names besides it.
STACK_BASE == 3145728
STACK_SIZE == 1048576
HEAP_REGION_SIZE == 1048576
IMAGE_BASE == 2097152
IMAGE_SIZE == 4096

StackRegion == [base |-> STACK_BASE, size |-> STACK_SIZE]
HeapRegion == [base |-> HEAP_BASE, size |-> HEAP_REGION_SIZE]
ImageRegion == [base |-> IMAGE_BASE, size |-> IMAGE_SIZE]

InRegion(a, r) == r.base <= a /\ a < r.base + r.size

Reverse(s) == [i \in 1..Len(s) |-> s[Len(s) + 1 - i]]

\* An in-binary string descriptor: object header (isa, flags), pointer to the
\* bytes, byte length; four 64-bit fields stored in the given byte order.
Descriptor(order, ptr, length) ==
    LET enc(w) == IF order = "be" THEN Reverse(w) ELSE w
    IN  enc(W0) \o enc(W0) \o enc(W(ptr)) \o enc(W(length))

\* `call rel32` placed at offset `at` of the image and aimed at `target`
CallRel32(at, target) ==
    <<232>> \o SubSeq(to_le_bytes(W(target - (IMAGE_BASE + at + 5))), 1, 4)

\* The image's data: offset -> bytes stored there (zero elsewhere).
ImageData ==
    << [at |-> 0,   bytes |-> Descriptor("be", IMAGE_BASE + 128, 2)],
       [at |-> 32,  bytes |-> Descriptor("be", IMAGE_BASE + 136, 3)],
       [at |-> 64,  bytes |-> Descriptor("be", IMAGE_BASE + 144, 2)],
       [at |-> 96,  bytes |-> Descriptor("le", IMAGE_BASE + 128, 2)],
       [at |-> 128, bytes |-> <<115, 110>>],           \* "sn"
       [at |-> 136, bytes |-> <<109, 97, 99>>],        \* "mac"
       [at |-> 144, bytes |-> <<122, 122>>],           \* "zz"
       [at |-> 152, bytes |-> <<118, 107>>],           \* "vk"
       [at |-> 160, bytes |-> <<101, 110, 48>>],       \* "en0", NUL terminated
       [at |-> 448, bytes |-> Descriptor("be", IMAGE_BASE + 152, 2)],
       [at |-> 512, bytes |-> <<184, 42, 0, 0, 0, 195>>],   \* mov eax, 42; ret
       [at |-> 528, bytes |-> <<88, 88, 195>>],             \* pop rax; pop rax; ret
       [at |-> 544, bytes |-> CallRel32(544, HOOK_BASE) \o <<195>>],
       [at |-> 560, bytes |-> CallRel32(560, HOOK_BASE + 8) \o <<195>>] >>

ImageByte(o) ==
    LET hit == {i \in 1..Len(ImageData) :
                   ImageData[i].at <= o /\ o < ImageData[i].at + Len(ImageData[i].bytes)}
    IN  IF hit = {} THEN 0
        ELSE LET i == CHOOSE i \in hit : TRUE
             IN  ImageData[i].bytes[o - ImageData[i].at + 1]

\* What a mapped byte holds when nothing has been written over it: the hook
\* region is filled with the return stub 0xC3 by setup.
Baseline(a) ==
    IF InRegion(a, HookRegion) THEN 195
    ELSE IF InRegion(a, ImageRegion) THEN ImageByte(a - IMAGE_BASE)
    ELSE 0

Mapped(a) == \E r \in mapped : InRegion(a, r)

\* uc.mem_read / uc.mem_write succeed when the whole range is mapped
\* (a range of length 0 always is).
MemOk(addr, len) ==
    len = 0 \/ (IsSmall(addr) /\ \A i \in 0..(len - 1) : Mapped(Val(addr) + i))

\* the same for a length that is a u64: the mapped regions together hold
\* less than 2^31 bytes, so no range of 2^31 bytes or more is mapped
MemOkW(addr, len) == IsSmall(len) /\ MemOk(addr, Val(len))

ByteAt(m, a) == IF a \in DOMAIN m THEN m[a] ELSE Baseline(a)

\* uc.mem_read(addr, &mut buf) on a mapped range
mem_read(m, addr, len) == [i \in 1..len |-> ByteAt(m, Val(addr) + i - 1)]

\* uc.mem_write(addr, bytes) on a mapped range
mem_write(m, addr, bytes) ==
    IF Len(bytes) = 0 THEN m
    ELSE LET lo == Val(addr)
             hi == lo + Len(bytes) - 1
             new(a) == IF lo <= a /\ a <= hi THEN bytes[a - lo + 1] ELSE m[a]
             dom == {a \in (DOMAIN m) \cup (lo..hi) : new(a) # Baseline(a)}
         IN  [a \in dom |-> new(a)]

---------------------------------------------------------------------------
(* The object model: CfObject and the handle table.                        *)

\* enum CfObject { String(String), Data(Vec<u8>), Dictionary(HashMap) }.
\* A String is held as its UTF-8 bytes.
NoDict == <<>>
CfString(bytes) == [tag |-> "String", bytes |-> bytes, dict |-> NoDict]
CfData(bytes) == [tag |-> "Data", bytes |-> bytes, dict |-> NoDict]
CfDictionary(d) == [tag |-> "Dictionary", bytes |-> <<>>, dict |-> d]

\* an insert that keeps the value of a key already present
DictInsert_keep(d, key, val) ==
    [k \in (DOMAIN d) \cup {key} |-> IF k \in DOMAIN d THEN d[k] ELSE val]

\* HashMap::insert
DictInsert(d, key, val) ==
    [k \in (DOMAIN d) \cup {key} |-> IF k = key THEN val ELSE d[k]]

\* cf_objects.get(h as usize - 1): the index of handle h, 0 when there is none
\* a table read at position h instead of h - 1
HandleIndex_zero_based(objs, h) ==
    IF IsSmall(h) /\ Val(h) < Len(objs) THEN Val(h) + 1 ELSE 0

HandleIndex(objs, h) ==
    IF IsSmall(h) /\ Val(h) >= 1 /\ Val(h) <= Len(objs) THEN Val(h) ELSE 0

\* "DADiskDescriptionVolumeUUIDKey"
VolumeUUIDKey ==
    <<68, 65, 68, 105, 115, 107, 68, 101, 115, 99, 114, 105, 112, 116, 105,
      111, 110, 86, 111, 108, 117, 109, 101, 85, 85, 73, 68, 75, 101, 121>>

\* "IOProviderClass"
IOProviderClassKey ==
    <<73, 79, 80, 114, 111, 118, 105, 100, 101, 114, 67, 108, 97, 115, 115>>

\* 0xc3c3c3c3c3c3c3c3
SentinelKey == [i \in 1..8 |-> 195]

\* a byte that starts a character, with the character's length in bytes;
\* 0 for a continuation byte and for a byte no UTF-8 text holds
LeadLen(b) ==
    IF b < 128 THEN 1
    ELSE IF b >= 194 /\ b <= 223 THEN 2
    ELSE IF b >= 224 /\ b <= 239 THEN 3
    ELSE IF b >= 240 /\ b <= 244 THEN 4
    ELSE 0

IsCont(b) == b >= 128 /\ b <= 191

\* String::from_utf8: whether the bytes are well-formed UTF-8.  Every lead
\* byte is followed by its continuation bytes (the second byte in the range
\* its lead allows), and every continuation byte belongs to a lead before it.
from_utf8_ok(bs) ==
    \A i \in 1..Len(bs) :
        LET b == bs[i]
            l == LeadLen(b)
        IN  IF IsCont(b)
            THEN \E k \in 1..3 :
                    /\ i - k >= 1
                    /\ LeadLen(bs[i - k]) > k
                    /\ \A j \in (i - k + 1)..(i - 1) : IsCont(bs[j])
            ELSE /\ l >= 1
                 /\ i + l - 1 <= Len(bs)
                 /\ \A j \in (i + 1)..(i + l - 1) : IsCont(bs[j])
                 /\ (b = 224 => bs[i + 1] >= 160)
                 /\ (b = 237 => bs[i + 1] <= 159)
                 /\ (b = 240 => bs[i + 1] >= 144)
                 /\ (b = 244 => bs[i + 1] <= 143)

\* The fixture dataset (data.plist): AppleData { iokit, root_disk_uuid }.
\* iokit maps a property name to a plist Data or String value.
\* Here: "sn" -> String "C02X", "mac" -> Data 01 02 03 04, and "vk" -> a
\* String that is the text of the volume-UUID key.
FakeIokit ==
    [k \in {<<115, 110>>, <<109, 97, 99>>, <<118, 107>>} |->
        IF k = <<115, 110>> THEN [kind |-> "String", bytes |-> <<67, 48, 50, 88>>]
        ELSE IF k = <<109, 97, 99>> THEN [kind |-> "Data", bytes |-> <<1, 2, 3, 4>>]
        ELSE [kind |-> "String", bytes |-> VolumeUUIDKey]]

\* "3E7B"
RootDiskUuid == <<51, 69, 55, 66>>

---------------------------------------------------------------------------
(* The Hook trait and the hook! macro.                                     *)

\* The parameters each hook! invocation declares (|jelly; a, b, ...|).
HookParams ==
    [ _malloc |-> <<"size">>,
      ___stack_chk_guard |-> <<>>,
      ___memset_chk |-> <<"dest", "c", "len", "dest_len">>,
      _sysctlbyname |-> <<"name", "oldp", "oldlenp", "newp", "newlen">>,
      _memcpy |-> <<"dest", "src", "len">>,
      _kIOMasterPortDefault |-> <<>>,
      _IORegistryEntryFromPath |-> <<"_x">>,
      _kCFAllocatorDefault |-> <<>>,
      _IORegistryEntryCreateCFProperty |-> <<"entry", "key", "allocator", "options">>,
      _CFGetTypeID |-> <<"obj">>,
      _CFStringGetTypeID |-> <<>>,
      _CFDataGetTypeID |-> <<>>,
      _CFDataGetLength |-> <<"obj">>,
      _CFDataGetBytes |-> <<"obj", "range_start", "range_end", "buf">>,
      _CFRelease |-> <<>>,
      _IOObjectRelease |-> <<>>,
      _statfs_INODE64 |-> <<>>,
      _DASessionCreate |-> <<>>,
      _DADiskCreateFromBSDName |-> <<>>,
      _kDADiskDescriptionVolumeUUIDKey |-> <<>>,
      _DADiskCopyDescription |-> <<>>,
      _CFDictionaryGetValue |-> <<"d", "key">>,
      _CFUUIDCreateString |-> <<"_x", "uuid">>,
      _CFStringGetLength |-> <<"string">>,
      _CFStringGetMaximumSizeForEncoding |-> <<"length", "_x">>,
      _CFStringGetCString |-> <<"string", "buf", "buf_len", "encoding">>,
      _free |-> <<>>,
      _IOServiceMatching |-> <<"name">>,
      _IOServiceGetMatchingService |-> <<>>,
      _CFDictionaryCreateMutable |-> <<>>,
      _kCFBooleanTrue |-> <<>>,
      _CFDictionarySetValue |-> <<"d", "key", "val">>,
      _IOServiceGetMatchingServices |-> <<"port", "match", "existing">>,
      _IOIteratorNext |-> <<"iterator">>,
      ___bzero |-> <<"ptr", "len">>,
      _IORegistryEntryGetParentEntry |-> <<"entry", "_x", "parent">>,
      _arc4random |-> <<>> ]

HookNames == DOMAIN HookParams

RECURSIVE count(_)
\* macro_rules! count
count(xs) ==
    IF Len(xs) = 0 THEN 0
    ELSE IF Len(xs) = 1 THEN 1
    ELSE 1 + count(Tail(xs))

\* Hook::args
HookArgs(name) == count(HookParams[name])

\* a pattern that also accepts a longer slice
Matches_atleast(name, args) == Len(args) >= Len(HookParams[name])

\* `let [$($args),*] = *args else { panic!(...) }`: the slice pattern matches
\* a slice of exactly as many words as the hook declares parameters.
Matches(name, args) == Len(args) = Len(HookParams[name])

---------------------------------------------------------------------------
(* What every hook invocation does to the record of the run.               *)

\* the parts of the Jelly a hook may change
jelly_vars == <<cf_objects, heap_size, eth_iterator_hack, mem, issued, allocs>>

\* the parts no hook touches
machine_vars == <<hooks, resolved_hooks, mapped, regs, overflow_checks, aside_vars, emu>>

\* the hook returns ret
Returns(name, args, ret) ==
    /\ last' = [name |-> name, args |-> args, ret |-> ret, ok |-> TRUE]
    /\ pre_cf' = cf_objects
    /\ hist' = Append(hist, name)
    /\ UNCHANGED <<pc, panic_msg>>

\* the hook ends the process without unwinding (handle_alloc_error): the run
\* is over and no panic is raised
Aborts(name, args, msg) ==
    /\ last' = [name |-> name, args |-> args, ret |-> W0, ok |-> FALSE]
    /\ pre_cf' = cf_objects
    /\ hist' = Append(hist, name)
    /\ pc' = "abort"
    /\ panic_msg' = msg
    /\ UNCHANGED jelly_vars

\* the hook panics: nothing it did before is visible, the run is over
Panics(name, args, msg) ==
    /\ last' = [name |-> name, args |-> args, ret |-> W0, ok |-> FALSE]
    /\ pre_cf' = cf_objects
    /\ hist' = Append(hist, name)
    /\ pc' = "panic"
    /\ panic_msg' = msg
    /\ UNCHANGED jelly_vars

\* a hook that returns a constant and touches nothing
Constant(name, args, ret) ==
    IF ~Matches(name, args) THEN Panics(name, args, "invalid number of arguments")
    ELSE Returns(name, args, ret) /\ UNCHANGED jelly_vars

\* Interns with the length taken before the push
Interns_stale(name, args, obj) ==
    LET handle == W(Len(cf_objects))
    IN  /\ cf_objects' = Append(cf_objects, obj)
        /\ Returns(name, args, handle)
        /\ issued' = Append(issued, handle)
        /\ UNCHANGED <<heap_size, eth_iterator_hack, mem, allocs>>

\* jelly.cf_objects.push(obj); jelly.cf_objects.len() as u64
Interns(name, args, obj) ==
    LET objs == Append(cf_objects, obj)
        handle == W(Len(objs))
    IN  /\ cf_objects' = objs
        /\ Returns(name, args, handle)
        /\ issued' = Append(issued, handle)
        /\ UNCHANGED <<heap_size, eth_iterator_hack, mem, allocs>>

\* the panic of `cf_objects.get(h as usize - 1).unwrap()` on a handle that
\* names no object
NoObject(h) ==
    IF h = W0 /\ overflow_checks THEN "attempt to subtract with overflow"
    ELSE "called Option::unwrap() on a None value"

\* `vec![x; len as usize]` of a length over isize::MAX (2^63 - 1): the
\* panic "capacity overflow"
NoAlloc(len) == len[8] >= 128

\* `vec![x; len as usize]`: what the allocation of len bytes comes to.
\* "capacity overflow" is the panic of a length over isize::MAX; "abort" is
\* the allocator refusing the length, which ends the process
\* (handle_alloc_error) and raises no panic.  No address space holds 2^56
\* bytes; whether a length from 2^31 on is granted is the allocator's to say.
Alloc(len) ==
    IF NoAlloc(len) THEN {"capacity overflow"}
    ELSE IF len[8] # 0 THEN {"abort"}
    ELSE IF IsSmall(len) THEN {"ok"}
    ELSE {"ok", "abort"}

AllocFailed == "memory allocation failed"

---------------------------------------------------------------------------
(* Jelly::malloc and Jelly::parse_cfstr_ptr.                               *)

\* a malloc that forgets to advance heap_size
malloc_stale(hs, size) ==
    LET a == AddW(W(HEAP_BASE), hs)
    IN  IF overflow_checks /\ a.overflow
        THEN [panic |-> "attempt to add with overflow", addr |-> W0, heap_size |-> hs]
        ELSE [panic |-> "", addr |-> a.w, heap_size |-> hs]

\* a malloc that hands out addresses from the hook region on
malloc_high(hs, size) ==
    LET a == AddW(W(HOOK_BASE), hs)
        n == AddW(hs, size)
    IN  IF overflow_checks /\ (a.overflow \/ n.overflow)
        THEN [panic |-> "attempt to add with overflow", addr |-> W0, heap_size |-> hs]
        ELSE [panic |-> "", addr |-> a.w, heap_size |-> n.w]

\* a malloc whose cursor is one static of the process, moved by the
\* allocations of every instance
malloc_static(hs, size) ==
    LET all == AddW(hs, IF other.made THEN other.jelly.heap_size ELSE W0)
        a == AddW(W(HEAP_BASE), all.w)
        n == AddW(hs, size)
    IN  IF overflow_checks /\ (all.overflow \/ a.overflow \/ n.overflow)
        THEN [panic |-> "attempt to add with overflow", addr |-> W0, heap_size |-> hs]
        ELSE [panic |-> "", addr |-> a.w, heap_size |-> n.w]

\* Jelly::malloc: the address returned and the new heap_size, or the panic of
\* an overflowing addition in a build that checks overflow
malloc(hs, size) ==
    LET a == AddW(W(HEAP_BASE), hs)
        n == AddW(hs, size)
    IN  IF overflow_checks /\ (a.overflow \/ n.overflow)
        THEN [panic |-> "attempt to add with overflow", addr |-> W0, heap_size |-> hs]
        ELSE [panic |-> "", addr |-> a.w, heap_size |-> n.w]

\* Jelly::parse_cfstr_ptr: the String read through the descriptor at ptr.
\* The outcomes the call can have: each is the String, the panic that ended
\* the call, or (abort) the end of the process in the allocation of str_buf.
parse_cfstr_ptr(ptr) ==
    IF ~MemOk(ptr, 32)
    THEN {[panic |-> "mem_read failed", abort |-> FALSE, str |-> <<>>]}
    ELSE LET buf == mem_read(mem, ptr, 32)
             chunk(k) == from_be_bytes(SubSeq(buf, 8 * k + 1, 8 * k + 8))
             str_ptr == chunk(2)
             length == chunk(3)
         IN  {IF a = "capacity overflow"
                 THEN [panic |-> a, abort |-> FALSE, str |-> <<>>]
              ELSE IF a = "abort"
                 THEN [panic |-> AllocFailed, abort |-> TRUE, str |-> <<>>]
              ELSE IF ~MemOkW(str_ptr, length)
                 THEN [panic |-> "mem_read failed", abort |-> FALSE, str |-> <<>>]
              ELSE LET str_buf == mem_read(mem, str_ptr, Val(length))
                   IN  IF ~from_utf8_ok(str_buf)
                       THEN [panic |-> "invalid utf-8", abort |-> FALSE, str |-> <<>>]
                       ELSE [panic |-> "", abort |-> FALSE, str |-> str_buf]
              : a \in Alloc(length)}

\* hooks::_parse_cstr_ptr: 256 bytes read at ptr, all of them the String
_parse_cstr_ptr(ptr) ==
    IF ~MemOk(ptr, 256) THEN [panic |-> "mem_read failed", str |-> <<>>]
    ELSE LET buf == mem_read(mem, ptr, 256)
         IN  IF ~from_utf8_ok(buf)
             THEN [panic |-> "invalid utf-8", str |-> <<>>]
             ELSE [panic |-> "", str |-> buf]

---------------------------------------------------------------------------
(* The hooks of nac.rs (mod hooks).  Each takes the argument words it is   *)
(* invoked with, as Hook::hook does.                                       *)

BadArity(name, args) == Panics(name, args, "invalid number of arguments")

_malloc(args) ==
    IF ~Matches("_malloc", args) THEN BadArity("_malloc", args)
    ELSE LET r == malloc(heap_size, args[1]) IN
         IF r.panic # "" THEN Panics("_malloc", args, r.panic)
         ELSE /\ heap_size' = r.heap_size
              /\ Returns("_malloc", args, r.addr)
              /\ allocs' = Append(allocs, [size |-> args[1], addr |-> r.addr])
              /\ UNCHANGED <<cf_objects, eth_iterator_hack, mem, issued>>

___stack_chk_guard(args) == Constant("___stack_chk_guard", args, W(0))

___memset_chk(args) ==
    IF ~Matches("___memset_chk", args) THEN BadArity("___memset_chk", args)
    ELSE LET dest == args[1]
             c == args[2]
             len == args[3]
         IN  \E a \in Alloc(len) :
             IF a = "capacity overflow" THEN Panics("___memset_chk", args, a)
             ELSE IF a = "abort" THEN Aborts("___memset_chk", args, AllocFailed)
             ELSE IF ~MemOkW(dest, len)
                  THEN Panics("___memset_chk", args, "mem_write failed")
             ELSE /\ mem' = mem_write(mem, dest, [i \in 1..Val(len) |-> AsU8(c)])
                  /\ Returns("___memset_chk", args, W(0))
                  /\ UNCHANGED <<cf_objects, heap_size, eth_iterator_hack, issued, allocs>>

_sysctlbyname(args) == Constant("_sysctlbyname", args, W(0))

_memcpy(args) ==
    IF ~Matches("_memcpy", args) THEN BadArity("_memcpy", args)
    ELSE LET dest == args[1]
             src == args[2]
             len == args[3]
         IN  \E a \in Alloc(len) :
             IF a = "capacity overflow" THEN Panics("_memcpy", args, a)
             ELSE IF a = "abort" THEN Aborts("_memcpy", args, AllocFailed)
             ELSE IF ~MemOkW(src, len)
                  THEN Panics("_memcpy", args, "mem_read failed")
             ELSE IF ~MemOkW(dest, len)
                  THEN Panics("_memcpy", args, "mem_write failed")
             ELSE /\ mem' = mem_write(mem, dest, mem_read(mem, src, Val(len)))
                  /\ Returns("_memcpy", args, W(0))
                  /\ UNCHANGED <<cf_objects, heap_size, eth_iterator_hack, issued, allocs>>

_kIOMasterPortDefault(args) == Constant("_kIOMasterPortDefault", args, W(0))

_IORegistryEntryFromPath(args) == Constant("_IORegistryEntryFromPath", args, W(1))

_kCFAllocatorDefault(args) == Constant("_kCFAllocatorDefault", args, W(0))

\* a registry query that wraps every fixture value as a string
_IORegistryEntryCreateCFProperty_strings(args) ==
    LET name == "_IORegistryEntryCreateCFProperty" IN
    IF ~Matches(name, args) THEN BadArity(name, args)
    ELSE \E key_str \in parse_cfstr_ptr(args[2]) :
         IF key_str.abort THEN Aborts(name, args, key_str.panic)
         ELSE IF key_str.panic # "" THEN Panics(name, args, key_str.panic)
         ELSE IF key_str.str \in DOMAIN FakeIokit
              THEN Interns(name, args, CfString(FakeIokit[key_str.str].bytes))
              ELSE Returns(name, args, W(0)) /\ UNCHANGED jelly_vars

_IORegistryEntryCreateCFProperty(args) ==
    LET name == "_IORegistryEntryCreateCFProperty" IN
    IF ~Matches(name, args) THEN BadArity(name, args)
    ELSE \E key_str \in parse_cfstr_ptr(args[2]) :
         IF key_str.abort THEN Aborts(name, args, key_str.panic)
         ELSE IF key_str.panic # "" THEN Panics(name, args, key_str.panic)
         ELSE IF key_str.str \in DOMAIN FakeIokit
              THEN LET fake == FakeIokit[key_str.str] IN
                   IF fake.kind = "Data"
                   THEN Interns(name, args, CfData(fake.bytes))
                   ELSE IF fake.kind = "String"
                   THEN Interns(name, args, CfString(fake.bytes))
                   ELSE Panics(name, args,
                               "entered unreachable code: compiled with invalid data.plist")
              ELSE Returns(name, args, W(0)) /\ UNCHANGED jelly_vars

_CFGetTypeID(args) ==
    IF ~Matches("_CFGetTypeID", args) THEN BadArity("_CFGetTypeID", args)
    ELSE LET i == HandleIndex(cf_objects, args[1]) IN
         IF i = 0 THEN Panics("_CFGetTypeID", args, NoObject(args[1]))
         ELSE IF cf_objects[i].tag = "Data"
              THEN Returns("_CFGetTypeID", args, W(1)) /\ UNCHANGED jelly_vars
         ELSE IF cf_objects[i].tag = "String"
              THEN Returns("_CFGetTypeID", args, W(2)) /\ UNCHANGED jelly_vars
         ELSE Panics("_CFGetTypeID", args, "invalid object type")

_CFStringGetTypeID(args) == Constant("_CFStringGetTypeID", args, W(2))

_CFDataGetTypeID(args) == Constant("_CFDataGetTypeID", args, W(1))

_CFDataGetLength(args) ==
    IF ~Matches("_CFDataGetLength", args) THEN BadArity("_CFDataGetLength", args)
    ELSE LET i == HandleIndex(cf_objects, args[1]) IN
         IF i = 0 THEN Panics("_CFDataGetLength", args, NoObject(args[1]))
         ELSE IF cf_objects[i].tag # "Data"
              THEN Panics("_CFDataGetLength", args, "out of bounds read")
         ELSE Returns("_CFDataGetLength", args, W(Len(cf_objects[i].bytes)))
              /\ UNCHANGED jelly_vars

_CFDataGetBytes(args) ==
    IF ~Matches("_CFDataGetBytes", args) THEN BadArity("_CFDataGetBytes", args)
    ELSE LET i == HandleIndex(cf_objects, args[1])
             range_start == args[2]
             range_end == args[3]
             buf == args[4]
         IN  IF i = 0 THEN Panics("_CFDataGetBytes", args, NoObject(args[1]))
             ELSE IF cf_objects[i].tag # "Data"
                  THEN Panics("_CFDataGetBytes", args, "out of bounds read")
             ELSE IF LtW(W(Len(cf_objects[i].bytes)), range_start)
                  THEN Panics("_CFDataGetBytes", args, "range start index out of range")
             ELSE IF LtW(W(Len(cf_objects[i].bytes)), range_end)
                  THEN Panics("_CFDataGetBytes", args, "range end index out of range")
             ELSE IF LtW(range_end, range_start)
                  THEN Panics("_CFDataGetBytes", args, "slice index starts after its end")
             ELSE LET data == SubSeq(cf_objects[i].bytes,
                                     Val(range_start) + 1, Val(range_end))
                  IN  IF ~MemOk(buf, Len(data))
                      THEN Panics("_CFDataGetBytes", args, "mem_write failed")
                      ELSE /\ mem' = mem_write(mem, buf, data)
                           /\ Returns("_CFDataGetBytes", args, W(Len(data)))
                           /\ UNCHANGED <<cf_objects, heap_size, eth_iterator_hack,
                                          issued, allocs>>

\* _CFRelease dropping the newest object of the table
_CFRelease_pops(args) ==
    IF ~Matches("_CFRelease", args) THEN BadArity("_CFRelease", args)
    ELSE /\ cf_objects' = SubSeq(cf_objects, 1, Len(cf_objects) - 1)
         /\ Returns("_CFRelease", args, W(0))
         /\ UNCHANGED <<heap_size, eth_iterator_hack, mem, issued, allocs>>

_CFRelease(args) == Constant("_CFRelease", args, W(0))

_IOObjectRelease(args) == Constant("_IOObjectRelease", args, W(0))

_statfs_INODE64(args) == Constant("_statfs_INODE64", args, W(0))

_DASessionCreate(args) == Constant("_DASessionCreate", args, W(201))

_DADiskCreateFromBSDName(args) == Constant("_DADiskCreateFromBSDName", args, W(202))

_kDADiskDescriptionVolumeUUIDKey(args) ==
    Constant("_kDADiskDescriptionVolumeUUIDKey", args, W(0))

\* fn cf_dictionary_create_mutable: the object pushed
cf_dictionary_create_mutable == CfDictionary(NoDict)

\* a disk description keyed by the UUID it should hold
_DADiskCopyDescription_keyed(args) ==
    IF ~Matches("_DADiskCopyDescription", args)
    THEN BadArity("_DADiskCopyDescription", args)
    ELSE Interns("_DADiskCopyDescription", args,
                 CfDictionary(DictInsert(cf_dictionary_create_mutable.dict,
                                         RootDiskUuid, CfString(VolumeUUIDKey))))

_DADiskCopyDescription(args) ==
    IF ~Matches("_DADiskCopyDescription", args)
    THEN BadArity("_DADiskCopyDescription", args)
    ELSE Interns("_DADiskCopyDescription", args,
                 CfDictionary(DictInsert(cf_dictionary_create_mutable.dict,
                                         VolumeUUIDKey, CfString(RootDiskUuid))))

\* dictionary_get_value answering a missing key with an empty buffer
dictionary_get_value_default(objs, dh, kh) ==
    LET d == HandleIndex(objs, dh)
        k == HandleIndex(objs, kh)
        none == CfData(<<>>)
    IN  IF d = 0 THEN [panic |-> NoObject(dh), val |-> none]
        ELSE IF kh # SentinelKey /\ k = 0 THEN [panic |-> NoObject(kh), val |-> none]
        ELSE IF kh # SentinelKey /\ objs[k].tag # "String"
             THEN [panic |-> "invalid key", val |-> none]
        ELSE IF objs[d].tag # "Dictionary"
             THEN [panic |-> "invalid object type", val |-> none]
        ELSE LET key == IF kh = SentinelKey THEN VolumeUUIDKey ELSE objs[k].bytes
             IN  IF key \notin DOMAIN objs[d].dict
                 THEN [panic |-> "", val |-> none]
                 ELSE [panic |-> "", val |-> objs[d].dict[key]]

\* dictionary_get_value without the special case of the sentinel key
dictionary_get_value_plain(objs, dh, kh) ==
    LET d == HandleIndex(objs, dh)
        k == HandleIndex(objs, kh)
        none == CfData(<<>>)
    IN  IF d = 0 THEN [panic |-> NoObject(dh), val |-> none]
        ELSE IF k = 0 THEN [panic |-> NoObject(kh), val |-> none]
        ELSE IF objs[k].tag # "String" THEN [panic |-> "invalid key", val |-> none]
        ELSE IF objs[d].tag # "Dictionary"
             THEN [panic |-> "invalid object type", val |-> none]
        ELSE IF objs[k].bytes \notin DOMAIN objs[d].dict
             THEN [panic |-> "key not found", val |-> none]
        ELSE [panic |-> "", val |-> objs[d].dict[objs[k].bytes]]

\* The body of _CFDictionaryGetValue up to the push: the value found under
\* the key in the dictionary at handle dh, or the panic
dictionary_get_value(objs, dh, kh) ==
    LET d == HandleIndex(objs, dh)
        k == HandleIndex(objs, kh)
        none == CfData(<<>>)
    IN  IF d = 0 THEN [panic |-> NoObject(dh), val |-> none]
        ELSE IF kh # SentinelKey /\ k = 0 THEN [panic |-> NoObject(kh), val |-> none]
        ELSE IF kh # SentinelKey /\ objs[k].tag # "String"
             THEN [panic |-> "invalid key", val |-> none]
        ELSE IF objs[d].tag # "Dictionary"
             THEN [panic |-> "invalid object type", val |-> none]
        ELSE LET key == IF kh = SentinelKey THEN VolumeUUIDKey ELSE objs[k].bytes
             IN  IF key \notin DOMAIN objs[d].dict
                 THEN [panic |-> "key not found", val |-> none]
                 ELSE [panic |-> "", val |-> objs[d].dict[key]]

_CFDictionaryGetValue(args) ==
    LET name == "_CFDictionaryGetValue" IN
    IF ~Matches(name, args) THEN BadArity(name, args)
    ELSE LET r == dictionary_get_value(cf_objects, args[1], args[2]) IN
         IF r.panic # "" THEN Panics(name, args, r.panic)
         ELSE Interns(name, args, r.val)

_CFUUIDCreateString(args) ==
    IF ~Matches("_CFUUIDCreateString", args) THEN BadArity("_CFUUIDCreateString", args)
    ELSE Returns("_CFUUIDCreateString", args, args[2]) /\ UNCHANGED jelly_vars

_CFStringGetLength(args) ==
    IF ~Matches("_CFStringGetLength", args) THEN BadArity("_CFStringGetLength", args)
    ELSE LET i == HandleIndex(cf_objects, args[1]) IN
         IF i = 0 THEN Panics("_CFStringGetLength", args, NoObject(args[1]))
         ELSE IF cf_objects[i].tag # "String"
              THEN Panics("_CFStringGetLength", args, "invalid object type")
         ELSE Returns("_CFStringGetLength", args, W(Len(cf_objects[i].bytes)))
              /\ UNCHANGED jelly_vars

_CFStringGetMaximumSizeForEncoding(args) ==
    IF ~Matches("_CFStringGetMaximumSizeForEncoding", args)
    THEN BadArity("_CFStringGetMaximumSizeForEncoding", args)
    ELSE Returns("_CFStringGetMaximumSizeForEncoding", args, args[1])
         /\ UNCHANGED jelly_vars

\* _CFStringGetCString copying the whole string whatever the capacity
_CFStringGetCString_untruncated(args) ==
    LET name == "_CFStringGetCString" IN
    IF ~Matches(name, args) THEN BadArity(name, args)
    ELSE LET i == HandleIndex(cf_objects, args[1]) IN
         IF i = 0 THEN Panics(name, args, NoObject(args[1]))
         ELSE IF cf_objects[i].tag # "String"
              THEN Panics(name, args, "invalid object type")
         ELSE IF ~MemOk(args[2], Len(cf_objects[i].bytes))
              THEN Panics(name, args, "mem_write failed")
         ELSE /\ mem' = mem_write(mem, args[2], cf_objects[i].bytes)
              /\ Returns(name, args, W(Len(cf_objects[i].bytes)))
              /\ UNCHANGED <<cf_objects, heap_size, eth_iterator_hack, issued, allocs>>

_CFStringGetCString(args) ==
    LET name == "_CFStringGetCString" IN
    IF ~Matches(name, args) THEN BadArity(name, args)
    ELSE LET i == HandleIndex(cf_objects, args[1])
             buf == args[2]
             buf_len == args[3]
         IN  IF i = 0 THEN Panics(name, args, NoObject(args[1]))
             ELSE IF cf_objects[i].tag # "String"
                  THEN Panics(name, args, "invalid object type")
             ELSE LET string == cf_objects[i].bytes
                      string_len == IF LtW(buf_len, W(Len(string)))
                                    THEN Val(buf_len) ELSE Len(string)
                  IN  IF ~MemOk(buf, string_len)
                      THEN Panics(name, args, "mem_write failed")
                      ELSE /\ mem' = mem_write(mem, buf, SubSeq(string, 1, string_len))
                           /\ Returns(name, args, W(string_len))
                           /\ UNCHANGED <<cf_objects, heap_size, eth_iterator_hack,
                                          issued, allocs>>

_free(args) == Constant("_free", args, W(0))

_IOServiceMatching(args) ==
    IF ~Matches("_IOServiceMatching", args) THEN BadArity("_IOServiceMatching", args)
    ELSE LET name == _parse_cstr_ptr(args[1]) IN
         IF name.panic # "" THEN Panics("_IOServiceMatching", args, name.panic)
         ELSE Interns("_IOServiceMatching", args,
                      CfDictionary(DictInsert(cf_dictionary_create_mutable.dict,
                                              IOProviderClassKey, CfString(name.str))))

_IOServiceGetMatchingService(args) ==
    Constant("_IOServiceGetMatchingService", args, W(92))

_CFDictionaryCreateMutable(args) ==
    IF ~Matches("_CFDictionaryCreateMutable", args)
    THEN BadArity("_CFDictionaryCreateMutable", args)
    ELSE Interns("_CFDictionaryCreateMutable", args, cf_dictionary_create_mutable)

_kCFBooleanTrue(args) == Constant("_kCFBooleanTrue", args, W(0))

_CFDictionarySetValue(args) ==
    LET name == "_CFDictionarySetValue" IN
    IF ~Matches(name, args) THEN BadArity(name, args)
    ELSE LET d == HandleIndex(cf_objects, args[1])
             k == HandleIndex(cf_objects, args[2])
             v == HandleIndex(cf_objects, args[3])
         IN  IF k = 0 THEN Panics(name, args, NoObject(args[2]))
             ELSE IF cf_objects[k].tag # "String" THEN Panics(name, args, "invalid key")
             ELSE IF v = 0 THEN Panics(name, args, NoObject(args[3]))
             ELSE IF d = 0 THEN Panics(name, args, NoObject(args[1]))
             ELSE IF cf_objects[d].tag # "Dictionary"
                  THEN Panics(name, args, "invalid object type")
             ELSE /\ cf_objects' =
                        [cf_objects EXCEPT ![d] =
                            CfDictionary(DictInsert(cf_objects[d].dict,
                                                    cf_objects[k].bytes, cf_objects[v]))]
                  /\ Returns(name, args, W(0))
                  /\ UNCHANGED <<heap_size, eth_iterator_hack, mem, issued, allocs>>

_IOServiceGetMatchingServices(args) ==
    LET name == "_IOServiceGetMatchingServices" IN
    IF ~Matches(name, args) THEN BadArity(name, args)
    ELSE /\ eth_iterator_hack' = TRUE
         \* the result of mem_write is dropped: a failed write changes nothing
         /\ mem' = IF MemOk(args[3], 1) THEN mem_write(mem, args[3], <<93>>) ELSE mem
         /\ Returns(name, args, W(0))
         /\ UNCHANGED <<cf_objects, heap_size, issued, allocs>>

\* _IOIteratorNext leaving the flag set
_IOIteratorNext_sticky(args) ==
    IF ~Matches("_IOIteratorNext", args) THEN BadArity("_IOIteratorNext", args)
    ELSE Returns("_IOIteratorNext", args, IF eth_iterator_hack THEN W(94) ELSE W(0))
         /\ UNCHANGED jelly_vars

_IOIteratorNext(args) ==
    IF ~Matches("_IOIteratorNext", args) THEN BadArity("_IOIteratorNext", args)
    ELSE IF eth_iterator_hack
         THEN /\ eth_iterator_hack' = FALSE
              /\ Returns("_IOIteratorNext", args, W(94))
              /\ UNCHANGED <<cf_objects, heap_size, mem, issued, allocs>>
         ELSE Returns("_IOIteratorNext", args, W(0)) /\ UNCHANGED jelly_vars

___bzero(args) ==
    IF ~Matches("___bzero", args) THEN BadArity("___bzero", args)
    ELSE \E a \in Alloc(args[2]) :
         IF a = "capacity overflow" THEN Panics("___bzero", args, a)
         ELSE IF a = "abort" THEN Aborts("___bzero", args, AllocFailed)
         ELSE /\ mem' = IF MemOkW(args[1], args[2])
                        THEN mem_write(mem, args[1], [i \in 1..Val(args[2]) |-> 0])
                        ELSE mem
              /\ Returns("___bzero", args, W(0))
              /\ UNCHANGED <<cf_objects, heap_size, eth_iterator_hack, issued, allocs>>

_IORegistryEntryGetParentEntry(args) ==
    LET name == "_IORegistryEntryGetParentEntry" IN
    IF ~Matches(name, args) THEN BadArity(name, args)
    ELSE LET sum == AsU8(args[1]) + 100 IN
         IF sum > 255 /\ overflow_checks
         THEN Panics(name, args, "attempt to add with overflow")
         ELSE /\ mem' = IF MemOk(args[3], 1)
                        THEN mem_write(mem, args[3], <<sum % 256>>)
                        ELSE mem
              /\ Returns(name, args, W(0))
              /\ UNCHANGED <<cf_objects, heap_size, eth_iterator_hack, issued, allocs>>

\* rand::random::<u32>() as u64: every u64 whose upper four bytes are zero
RandomU32 == {w \in [1..8 -> Byte] : \A i \in 5..8 : w[i] = 0}

\* the values of RandomU32 a run draws from: the least, the greatest and two
\* between
RandomDraws ==
    {W(0), W(665586327), W(1367797534), [i \in 1..8 |-> IF i <= 4 THEN 255 ELSE 0]}

\* r is what rand::random returned in this invocation
_arc4random(args, r) ==
    IF ~Matches("_arc4random", args) THEN BadArity("_arc4random", args)
    ELSE /\ r \in RandomU32
         /\ Returns("_arc4random", args, r) /\ UNCHANGED jelly_vars

---------------------------------------------------------------------------
(* The machine: Jelly::new, Jelly::setup, and the environment.             *)

NoCall == [name |-> "", args |-> <<>>, ret |-> W0, ok |-> TRUE]
NoEmu == [active |-> FALSE, hooked |-> FALSE, returned |-> <<>>, steps |-> 0,
          addr |-> W0, args |-> <<>>]

\* get_x64_slice has not been called
NotLoaded == [panic |-> "", done |-> FALSE, slice |-> <<>>]

\* generate_validation_data, or base64_decode, has not been called
NotRun == [panic |-> "", done |-> FALSE, text |-> <<>>]

\* there is no second Jelly
NoJelly == [made |-> FALSE]

NoCalls == [this |-> <<>>, that |-> <<>>]

\* a Jelly that starts with a handle table and a heap cursor already in use
Jelly_new_used(bin) ==
    [binary |-> bin,
     hooks |-> {},
     resolved_hooks |-> [a \in {} |-> ""],
     mapped |-> {},
     mem |-> [a \in {} |-> 0],
     regs |-> [r \in RegNames |-> W0],
     heap_size |-> W(8),
     cf_objects |-> <<CfDictionary(NoDict)>>,
     eth_iterator_hack |-> TRUE]

\* Jelly::new(binary): the slice kept, nothing mapped, no hooks, an empty
\* handle table
Jelly_new(bin) ==
    [binary |-> bin,
     hooks |-> {},
     resolved_hooks |-> [a \in {} |-> ""],
     mapped |-> {},
     mem |-> [a \in {} |-> 0],
     regs |-> [r \in RegNames |-> W0],
     heap_size |-> W0,
     cf_objects |-> <<>>,
     eth_iterator_hack |-> FALSE]

\* this Jelly is j (the slice it keeps is the loader's, x64_slice.slice)
JellyIs(j) ==
    /\ hooks = j.hooks
    /\ resolved_hooks = j.resolved_hooks
    /\ mapped = j.mapped
    /\ mem = j.mem
    /\ regs = j.regs
    /\ heap_size = j.heap_size
    /\ cf_objects = j.cf_objects
    /\ eth_iterator_hack = j.eth_iterator_hack

\* a run that has invoked nothing yet, in a build of either kind
RunInit ==
    /\ overflow_checks \in BOOLEAN
    /\ pc = "new"
    /\ panic_msg = ""
    /\ last = NoCall
    /\ pre_cf = <<>>
    /\ hist = <<>>
    /\ issued = <<>>
    /\ allocs = <<>>
    /\ emu = NoEmu

\* the loader is not part of the run
LoaderIdle == binary = <<>> /\ x64_slice = NotLoaded

\* the driver is not part of the run
DriverIdle == blob = <<>> /\ validation = NotRun /\ decoded = NotRun

\* the run has one Jelly
Alone == other = NoJelly /\ calls = NoCalls

\* no message is part of the run
NoMessage == [made |-> FALSE]
Unsent == im = NoMessage

\* one Jelly, as Jelly::new made it
Init == JellyIs(Jelly_new(<<>>)) /\ RunInit /\ LoaderIdle /\ DriverIdle /\ Alone /\ Unsent

\* the key load_nac registers a hook under
RegisteredName(n) == IF n = "_statfs_INODE64" THEN "_statfs$INODE64" ELSE n

\* load_nac: the hook table handed to setup
LoadedHooks == {RegisteredName(n) : n \in HookNames}

\* Jelly::setup: the hooks are stored, the hook region is mapped and filled
\* with 0xC3, and the code hook is installed over it
setup ==
    /\ pc = "new"
    /\ hooks' = hooks \cup LoadedHooks
    /\ mapped' = mapped \cup {HookRegion}
    /\ mem' = [a \in {x \in DOMAIN mem : ~InRegion(x, HookRegion)} |-> mem[a]]
    /\ pc' = "ready"
    /\ UNCHANGED <<resolved_hooks, regs, heap_size, cf_objects, eth_iterator_hack,
                   overflow_checks, aside_vars, calls, panic_msg, last, pre_cf, hist, issued, allocs,
                   emu>>

\* The rest of the machine's set-up, which jelly.rs does not hold: the stack,
\* heap and image regions are mapped and the stack pointer is set to the top
\* of the stack.
MapEnvironment ==
    /\ pc = "ready"
    /\ hist = <<>>
    /\ ~emu.active /\ emu.steps = 0
    /\ StackRegion \notin mapped
    /\ mapped' = mapped \cup {StackRegion, HeapRegion, ImageRegion}
    /\ regs' = [regs EXCEPT !["RSP"] = W(STACK_BASE + STACK_SIZE)]
    /\ UNCHANGED <<hooks, resolved_hooks, mem, heap_size, cf_objects,
                   eth_iterator_hack, overflow_checks, aside_vars, calls, pc, panic_msg, last, pre_cf,
                   hist, issued, allocs, emu>>

\* a hook invoked directly through Hook::hook, at most `bound` times in a run
Invoke(bound, A) ==
    pc = "ready" /\ ncalls < bound /\ A /\ UNCHANGED <<machine_vars, calls>>

---------------------------------------------------------------------------
(* The argument words the hooks are invoked with.                          *)

\* every handle of the table, 0 and the first handle not yet issued
Handles == {W(h) : h \in 0..(Len(cf_objects) + 1)}

\* the handles issued so far
Issued == {W(h) : h \in 1..Len(cf_objects)}

InHook == W(HOOK_BASE + 16)
AtHookEnd == W(HOOK_BASE + HOOK_SIZE - 2)
InHeap == W(HEAP_BASE)
Unmapped == W(0)
InImage(off) == W(IMAGE_BASE + off)

\* 2^31: a length an allocation may be granted and no mapped range has
TwoGiB == [i \in 1..8 |-> IF i = 4 THEN 128 ELSE 0]

Seqs1(A) == {<<a>> : a \in A}
Seqs2(A, B) == {<<a, b>> : a \in A, b \in B}
Seqs3(A, B, C) == {<<a, b, c>> : a \in A, b \in B, c \in C}
Seqs4(A, B, C, D) == {<<a, b, c, d>> : a \in A, b \in B, c \in C, d \in D}

\* argument lists of the declared length
In(name) ==
    CASE name = "_malloc" -> Seqs1({W(0), W(8), W(24), W(HOOK_BASE), MaxW})
      [] name = "___memset_chk" ->
            Seqs4({InHook, AtHookEnd, InHeap}, {W(321)}, {W(0), W(3)}, {W(2)})
            \cup {<<InHook, W(0), MaxW, W(2)>>, <<InHook, W(0), TwoGiB, W(2)>>}
      [] name = "_sysctlbyname" -> {<<W(1), W(2), W(3), W(4), W(5)>>}
      [] name = "_memcpy" ->
            Seqs3({InHook, InHeap}, {InImage(128), AtHookEnd}, {W(2), W(3)})
            \cup {<<InHook, InHook, TwoGiB>>}
      [] name = "_IORegistryEntryFromPath" -> {<<W(5)>>}
      [] name = "_IORegistryEntryCreateCFProperty" ->
            Seqs4({W(1)}, {InImage(0), InImage(32), InImage(64), InImage(96),
                           InImage(448), InHook},
                  {W(0)}, {W(0)})
      [] name \in {"_CFGetTypeID", "_CFDataGetLength", "_CFStringGetLength"} ->
            Seqs1(Handles)
      [] name = "_CFDataGetBytes" ->
            Seqs4(Handles, {W(0), W(1)}, {W(0), W(3), W(5)}, {InHook, Unmapped})
      [] name = "_CFDictionaryGetValue" ->
            Seqs2(Handles, Issued \cup {W(Len(cf_objects) + 1), SentinelKey})
      [] name = "_CFUUIDCreateString" -> Seqs2({W(0)}, {W(0), W(2)})
      [] name = "_CFStringGetMaximumSizeForEncoding" -> Seqs2({W(4), MaxW}, {W(1536)})
      [] name = "_CFStringGetCString" ->
            Seqs4(Handles, {InHook, AtHookEnd, Unmapped}, {W(0), W(2), W(4), W(300)},
                  {W(1536)})
      [] name = "_IOServiceMatching" -> Seqs1({InImage(160), InHook, Unmapped})
      [] name = "_CFDictionarySetValue" ->
            Seqs3(Handles, Issued \cup {W(0)}, Issued \cup {W(Len(cf_objects) + 1)})
      [] name = "_IOServiceGetMatchingServices" ->
            Seqs3({W(0)}, {W(1)}, {InHook, Unmapped})
      [] name = "_IOIteratorNext" -> {<<W(93)>>}
      [] name = "___bzero" -> Seqs2({InHook, Unmapped}, {W(0), W(2)})
            \cup {<<InHook, MaxW>>, <<InHook, TwoGiB>>}
      [] name = "_IORegistryEntryGetParentEntry" ->
            Seqs3({W(1), W(200)}, {W(0)}, {InHook, Unmapped})
      [] OTHER -> {<<>>}

\* registry queries for the text of the volume UUID key and for a key the
\* registry lacks
ObjKeys == Seqs4({W(1)}, {InImage(64), InImage(448)}, {W(0)}, {W(0)})

\* a service name in the image, and one in unmapped memory
ObjNames == Seqs1({InImage(160), Unmapped})

\* argument lists of another length: one word more, and one word less
WrongIn(name) ==
    LET n == Len(HookParams[name])
    IN  {[i \in 1..(n + 1) |-> W(1)]}
        \cup (IF n = 0 THEN {} ELSE {[i \in 1..(n - 1) |-> W(1)]})

AnyIn(name) == In(name) \cup WrongIn(name)

---------------------------------------------------------------------------
(* VirtualInstruction: push, set_args and call.                            *)

\* reg_read(ESP): the low half of RSP
Lo32(w) == [i \in 1..8 |-> IF i <= 4 THEN w[i] ELSE 0]

\* reg_write(ESP, v): the low half of RSP replaced by the low half of v
WithLo32(w, v) == [i \in 1..8 |-> IF i <= 4 THEN v[i] ELSE w[i]]

\* the machine as push and set_args see it
Machine(r, m) == [regs |-> r, mem |-> m, panic |-> ""]

\* VirtualInstruction::push: ESP goes down by 8, the value is stored there
push(st, value) ==
    LET d == SubW(Lo32(st.regs["RSP"]), W(8))
        rsp == WithLo32(st.regs["RSP"], d.w)
        moved == [st.regs EXCEPT !["RSP"] = rsp]
    IN  IF overflow_checks /\ d.overflow
        THEN [st EXCEPT !.panic = "attempt to subtract with overflow"]
        ELSE IF ~MemOk(Lo32(rsp), 8)
        THEN [regs |-> moved, mem |-> st.mem, panic |-> "mem_write failed"]
        ELSE [regs |-> moved, mem |-> mem_write(st.mem, Lo32(rsp), to_le_bytes(value)),
              panic |-> ""]

RECURSIVE SetArgsFrom(_, _, _)
\* the loop of set_args from the i-th argument on
SetArgsFrom(st, args, i) ==
    IF i > Len(args) \/ st.panic # "" THEN st
    ELSE IF i <= 6
         THEN SetArgsFrom([st EXCEPT !.regs[ARG_REGISTERS[i]] = args[i]], args, i + 1)
         ELSE SetArgsFrom(push(st, args[i]), args, i + 1)

\* set_args filling the argument registers from the last one down
set_args_reversed(st, args) ==
    LET n == IF Len(args) < 6 THEN Len(args) ELSE 6
    IN  [st EXCEPT !.regs = [r \in RegNames |->
                                IF \E i \in 1..n : ARG_REGISTERS[7 - i] = r
                                THEN args[CHOOSE i \in 1..n : ARG_REGISTERS[7 - i] = r]
                                ELSE st.regs[r]]]

\* VirtualInstruction::set_args
set_args(st, args) == SetArgsFrom(st, args, 1)

\* VirtualInstruction::call up to emu_start: the sentinel is pushed, the
\* arguments are placed, and execution starts at addr
call(addr, args) ==
    /\ pc = "ready" /\ ~emu.active /\ emu.returned = <<>>
    /\ LET s1 == push(Machine(regs, mem), W(STOP_ADDR))
           s2 == IF s1.panic # "" THEN s1 ELSE set_args(s1, args)
       IN  /\ mem' = s2.mem
           /\ IF s2.panic # ""
              THEN /\ regs' = s2.regs
                   /\ pc' = "panic"
                   /\ panic_msg' = s2.panic
                   /\ emu' = [emu EXCEPT !.addr = addr, !.args = args]
              ELSE /\ regs' = [s2.regs EXCEPT !["RIP"] = addr]
                   /\ pc' = "emu"
                   /\ emu' = [emu EXCEPT !.active = TRUE, !.addr = addr, !.args = args]
                   /\ UNCHANGED panic_msg
    /\ UNCHANGED <<hooks, resolved_hooks, mapped, heap_size, cf_objects,
                   eth_iterator_hack, overflow_checks, aside_vars, calls, last, pre_cf, hist, issued,
                   allocs>>

\* the addresses load_nac would resolve to hooks; jelly.rs and nac.rs never
\* fill resolved_hooks
ResolveHook(addr, name) ==
    /\ pc = "ready" /\ ~emu.active /\ emu.returned = <<>>
    /\ addr \notin DOMAIN resolved_hooks
    /\ resolved_hooks' = [a \in (DOMAIN resolved_hooks) \cup {addr} |->
                             IF a = addr THEN name ELSE resolved_hooks[a]]
    /\ UNCHANGED <<hooks, mapped, mem, regs, heap_size, cf_objects, eth_iterator_hack,
                   overflow_checks, aside_vars, calls, pc, panic_msg, last, pre_cf, hist, issued, allocs,
                   emu>>

---------------------------------------------------------------------------
(* emu_start: the code hook over the hook region and the instructions the  *)
(* images and the return stubs are made of.                                *)

\* self.hooks[name].hook(self, args) for the names ResolveHook resolves
HookStep(name, args) ==
    CASE name = "_malloc" -> _malloc(args)
      [] name = "_DASessionCreate" -> _DASessionCreate(args)
      [] name = "_CFDictionaryCreateMutable" -> _CFDictionaryCreateMutable(args)

Running == pc = "emu" /\ emu.active /\ emu.steps < MaxEmuSteps

Rip == regs["RIP"]

\* the code hook has to run before the instruction at Rip executes
Trapped == IsSmall(Rip) /\ InRegion(Val(Rip), HookRegion) /\ ~emu.hooked

\* the instruction at Rip is about to execute and starts with byte op
Fetch(op) ==
    /\ Running
    /\ Rip # W(STOP_ADDR)
    /\ MemOk(Rip, 1)
    /\ ~Trapped
    /\ ByteAt(mem, Val(Rip)) = op

\* one more instruction of the run has executed
Stepped == emu' = [emu EXCEPT !.hooked = FALSE, !.steps = @ + 1]

\* emu_start returns an error and the unwrap panics
EmuError ==
    /\ pc' = "panic"
    /\ panic_msg' = "emu_start failed"
    /\ UNCHANGED <<regs, mem>>

\* the closure given to add_code_hook in setup: the hook resolved for the
\* address is invoked with an empty argument slice and its result is dropped
CodeHook ==
    /\ Running
    /\ Rip # W(STOP_ADDR)
    /\ Trapped
    /\ IF Val(Rip) \in DOMAIN resolved_hooks
       THEN LET name == resolved_hooks[Val(Rip)] IN
            IF name \in hooks THEN HookStep(name, <<>>)
            ELSE Panics(name, <<>>, "no entry found for key")
       ELSE UNCHANGED <<jelly_vars, last, pre_cf, hist, pc, panic_msg>>
    /\ emu' = [emu EXCEPT !.hooked = TRUE, !.steps = @ + 1]
    /\ UNCHANGED <<hooks, resolved_hooks, mapped, regs, overflow_checks, aside_vars, calls>>

\* ret (0xC3): the return address is popped into RIP
ExecRet ==
    /\ Fetch(195)
    /\ IF MemOk(regs["RSP"], 8)
       THEN /\ regs' = [regs EXCEPT !["RIP"] = from_le_bytes(mem_read(mem, regs["RSP"], 8)),
                                    !["RSP"] = AddW(regs["RSP"], W(8)).w]
            /\ UNCHANGED <<mem, pc, panic_msg>>
       ELSE EmuError
    /\ Stepped
    /\ UNCHANGED <<hooks, resolved_hooks, mapped, heap_size, cf_objects,
                   eth_iterator_hack, overflow_checks, aside_vars, calls, last, pre_cf, hist, issued,
                   allocs>>

\* call rel32 (0xE8): the address of the next instruction is pushed and RIP
\* moves by the signed displacement
ExecCall ==
    /\ Fetch(232)
    /\ LET rel == mem_read(mem, W(Val(Rip) + 1), 4)
           disp == rel[1] + 256 * rel[2] + 65536 * rel[3]
                   + 16777216 * (IF rel[4] < 128 THEN rel[4] ELSE rel[4] - 256)
           next == Val(Rip) + 5
           sp == SubW(regs["RSP"], W(8)).w
       IN  IF MemOk(sp, 8)
           THEN /\ mem' = mem_write(mem, sp, to_le_bytes(W(next)))
                /\ regs' = [regs EXCEPT !["RIP"] = W(next + disp), !["RSP"] = sp]
                /\ UNCHANGED <<pc, panic_msg>>
           ELSE EmuError
    /\ Stepped
    /\ UNCHANGED <<hooks, resolved_hooks, mapped, heap_size, cf_objects,
                   eth_iterator_hack, overflow_checks, aside_vars, calls, last, pre_cf, hist, issued,
                   allocs>>

\* mov eax, imm32 (0xB8): RAX is the zero-extended immediate
ExecMov ==
    /\ Fetch(184)
    /\ LET imm == mem_read(mem, W(Val(Rip) + 1), 4)
       IN  regs' = [regs EXCEPT !["RAX"] = [i \in 1..8 |-> IF i <= 4 THEN imm[i] ELSE 0],
                                !["RIP"] = W(Val(Rip) + 5)]
    /\ Stepped
    /\ UNCHANGED <<hooks, resolved_hooks, mapped, mem, heap_size, cf_objects,
                   eth_iterator_hack, overflow_checks, aside_vars, calls, pc, panic_msg, last, pre_cf,
                   hist, issued, allocs>>

\* pop rax (0x58)
ExecPop ==
    /\ Fetch(88)
    /\ IF MemOk(regs["RSP"], 8)
       THEN /\ regs' = [regs EXCEPT !["RAX"] = from_le_bytes(mem_read(mem, regs["RSP"], 8)),
                                    !["RSP"] = AddW(regs["RSP"], W(8)).w,
                                    !["RIP"] = W(Val(Rip) + 1)]
            /\ UNCHANGED <<mem, pc, panic_msg>>
       ELSE EmuError
    /\ Stepped
    /\ UNCHANGED <<hooks, resolved_hooks, mapped, heap_size, cf_objects,
                   eth_iterator_hack, overflow_checks, aside_vars, calls, last, pre_cf, hist, issued,
                   allocs>>

\* the instruction pointer left the mapped memory: emu_start fails
EmuFault ==
    /\ Running
    /\ Rip # W(STOP_ADDR)
    /\ ~MemOk(Rip, 1)
    /\ EmuError
    /\ Stepped
    /\ UNCHANGED <<hooks, resolved_hooks, mapped, heap_size, cf_objects,
                   eth_iterator_hack, overflow_checks, aside_vars, calls, last, pre_cf, hist, issued,
                   allocs>>

\* control reached STOP_ADDR: emu_start returns and call returns RAX
EmuStop ==
    /\ pc = "emu" /\ emu.active
    /\ Rip = W(STOP_ADDR)
    /\ emu' = [emu EXCEPT !.active = FALSE, !.returned = <<regs["RAX"]>>]
    /\ pc' = "ready"
    /\ UNCHANGED <<hooks, resolved_hooks, mapped, mem, regs, heap_size, cf_objects,
                   eth_iterator_hack, overflow_checks, aside_vars, calls, panic_msg, last, pre_cf, hist,
                   issued, allocs>>

\* the addresses call is given: two return stubs, the four functions of the
\* image, and an unmapped address
CallTargets ==
    {W(HOOK_BASE), W(HOOK_BASE + 8), InImage(512), InImage(528), InImage(544),
     InImage(560), Unmapped}

\* argument lists of every length up to MaxCallArgs: plain words, and words
\* whose stack-passed part are addresses of return stubs
CallArgs ==
    {[i \in 1..n |-> W(10 + i)] : n \in 0..MaxCallArgs}
    \cup {[i \in 1..n |-> IF i > 6 THEN W(HOOK_BASE + 16 * i) ELSE W(10 + i)] :
             n \in 7..MaxCallArgs}

ResolvedAddrs == {HOOK_BASE, HOOK_BASE + 8}
ResolvedNames == {"_malloc", "_DASessionCreate", "_CFDictionaryCreateMutable", "_missing"}

---------------------------------------------------------------------------
(* Specifications.                                                         *)

\* Every hook, invoked with argument lists of the declared and of other
\* lengths.
Next ==
    \/ setup
    \/ MapEnvironment
    \/ \E args \in AnyIn("_malloc") : Invoke(MaxCalls, _malloc(args))
    \/ \E args \in AnyIn("___stack_chk_guard") : Invoke(MaxCalls, ___stack_chk_guard(args))
    \/ \E args \in AnyIn("___memset_chk") : Invoke(MaxCalls, ___memset_chk(args))
    \/ \E args \in AnyIn("_sysctlbyname") : Invoke(MaxCalls, _sysctlbyname(args))
    \/ \E args \in AnyIn("_memcpy") : Invoke(MaxCalls, _memcpy(args))
    \/ \E args \in AnyIn("_kIOMasterPortDefault") : Invoke(MaxCalls, _kIOMasterPortDefault(args))
    \/ \E args \in AnyIn("_IORegistryEntryFromPath") : Invoke(MaxCalls, _IORegistryEntryFromPath(args))
    \/ \E args \in AnyIn("_kCFAllocatorDefault") : Invoke(MaxCalls, _kCFAllocatorDefault(args))
    \/ \E args \in AnyIn("_IORegistryEntryCreateCFProperty") : Invoke(MaxCalls, _IORegistryEntryCreateCFProperty(args))
    \/ \E args \in AnyIn("_CFGetTypeID") : Invoke(MaxCalls, _CFGetTypeID(args))
    \/ \E args \in AnyIn("_CFStringGetTypeID") : Invoke(MaxCalls, _CFStringGetTypeID(args))
    \/ \E args \in AnyIn("_CFDataGetTypeID") : Invoke(MaxCalls, _CFDataGetTypeID(args))
    \/ \E args \in AnyIn("_CFDataGetLength") : Invoke(MaxCalls, _CFDataGetLength(args))
    \/ \E args \in AnyIn("_CFDataGetBytes") : Invoke(MaxCalls, _CFDataGetBytes(args))
    \/ \E args \in AnyIn("_CFRelease") : Invoke(MaxCalls, _CFRelease(args))
    \/ \E args \in AnyIn("_IOObjectRelease") : Invoke(MaxCalls, _IOObjectRelease(args))
    \/ \E args \in AnyIn("_statfs_INODE64") : Invoke(MaxCalls, _statfs_INODE64(args))
    \/ \E args \in AnyIn("_DASessionCreate") : Invoke(MaxCalls, _DASessionCreate(args))
    \/ \E args \in AnyIn("_DADiskCreateFromBSDName") : Invoke(MaxCalls, _DADiskCreateFromBSDName(args))
    \/ \E args \in AnyIn("_kDADiskDescriptionVolumeUUIDKey") : Invoke(MaxCalls, _kDADiskDescriptionVolumeUUIDKey(args))
    \/ \E args \in AnyIn("_DADiskCopyDescription") : Invoke(MaxCalls, _DADiskCopyDescription(args))
    \/ \E args \in AnyIn("_CFDictionaryGetValue") : Invoke(MaxCalls, _CFDictionaryGetValue(args))
    \/ \E args \in AnyIn("_CFUUIDCreateString") : Invoke(MaxCalls, _CFUUIDCreateString(args))
    \/ \E args \in AnyIn("_CFStringGetLength") : Invoke(MaxCalls, _CFStringGetLength(args))
    \/ \E args \in AnyIn("_CFStringGetMaximumSizeForEncoding") : Invoke(MaxCalls, _CFStringGetMaximumSizeForEncoding(args))
    \/ \E args \in AnyIn("_CFStringGetCString") : Invoke(MaxCalls, _CFStringGetCString(args))
    \/ \E args \in AnyIn("_free") : Invoke(MaxCalls, _free(args))
    \/ \E args \in AnyIn("_IOServiceMatching") : Invoke(MaxCalls, _IOServiceMatching(args))
    \/ \E args \in AnyIn("_IOServiceGetMatchingService") : Invoke(MaxCalls, _IOServiceGetMatchingService(args))
    \/ \E args \in AnyIn("_CFDictionaryCreateMutable") : Invoke(MaxCalls, _CFDictionaryCreateMutable(args))
    \/ \E args \in AnyIn("_kCFBooleanTrue") : Invoke(MaxCalls, _kCFBooleanTrue(args))
    \/ \E args \in AnyIn("_CFDictionarySetValue") : Invoke(MaxCalls, _CFDictionarySetValue(args))
    \/ \E args \in AnyIn("_IOServiceGetMatchingServices") : Invoke(MaxCalls, _IOServiceGetMatchingServices(args))
    \/ \E args \in AnyIn("_IOIteratorNext") : Invoke(MaxCalls, _IOIteratorNext(args))
    \/ \E args \in AnyIn("___bzero") : Invoke(MaxCalls, ___bzero(args))
    \/ \E args \in AnyIn("_IORegistryEntryGetParentEntry") : Invoke(MaxCalls, _IORegistryEntryGetParentEntry(args))
    \/ \E args \in AnyIn("_arc4random"), r \in RandomDraws :
            Invoke(MaxCalls, _arc4random(args, r))

Spec == Init /\ [][Next]_vars

\* The hooks that create or change objects of the handle table, with the
\* release hooks.
NextObj ==
    \/ setup
    \/ MapEnvironment
    \/ \E args \in ObjKeys : Invoke(MaxObjCalls, _IORegistryEntryCreateCFProperty(args))
    \/ \E args \in In("_CFRelease") : Invoke(MaxObjCalls, _CFRelease(args))
    \/ \E args \in In("_IOObjectRelease") : Invoke(MaxObjCalls, _IOObjectRelease(args))
    \/ \E args \in In("_DADiskCopyDescription") : Invoke(MaxObjCalls, _DADiskCopyDescription(args))
    \/ \E args \in In("_CFDictionaryGetValue") : Invoke(MaxObjCalls, _CFDictionaryGetValue(args))
    \/ \E args \in In("_free") : Invoke(MaxObjCalls, _free(args))
    \/ \E args \in ObjNames : Invoke(MaxObjCalls, _IOServiceMatching(args))
    \/ \E args \in In("_CFDictionaryCreateMutable") : Invoke(MaxObjCalls, _CFDictionaryCreateMutable(args))
    \/ \E args \in In("_CFDictionarySetValue") : Invoke(MaxObjCalls, _CFDictionarySetValue(args))

SpecObj == Init /\ [][NextObj]_vars

\* The hooks that read strings and byte buffers out of the handle table.
NextStr ==
    \/ setup
    \/ MapEnvironment
    \/ \E args \in In("_IORegistryEntryCreateCFProperty") : Invoke(MaxStrCalls, _IORegistryEntryCreateCFProperty(args))
    \/ \E args \in In("_CFGetTypeID") : Invoke(MaxStrCalls, _CFGetTypeID(args))
    \/ \E args \in In("_CFDataGetLength") : Invoke(MaxStrCalls, _CFDataGetLength(args))
    \/ \E args \in In("_CFDataGetBytes") : Invoke(MaxStrCalls, _CFDataGetBytes(args))
    \/ \E args \in In("_DADiskCopyDescription") : Invoke(MaxStrCalls, _DADiskCopyDescription(args))
    \/ \E args \in In("_CFDictionaryGetValue") : Invoke(MaxStrCalls, _CFDictionaryGetValue(args))
    \/ \E args \in In("_CFStringGetLength") : Invoke(MaxStrCalls, _CFStringGetLength(args))
    \/ \E args \in In("_CFStringGetMaximumSizeForEncoding") : Invoke(MaxStrCalls, _CFStringGetMaximumSizeForEncoding(args))
    \/ \E args \in In("_CFStringGetCString") : Invoke(MaxStrCalls, _CFStringGetCString(args))

SpecStr == Init /\ [][NextStr]_vars

\* The allocator.
NextHeap ==
    \/ setup
    \/ MapEnvironment
    \/ \E args \in In("_malloc") : Invoke(MaxHeapCalls, _malloc(args))
    \/ \E args \in In("_free") : Invoke(MaxHeapCalls, _free(args))

SpecHeap == Init /\ [][NextHeap]_vars

\* The iterator pair.
NextIter ==
    \/ setup
    \/ MapEnvironment
    \/ \E args \in In("_IOServiceGetMatchingServices") : Invoke(MaxIterCalls, _IOServiceGetMatchingServices(args))
    \/ \E args \in In("_IOIteratorNext") : Invoke(MaxIterCalls, _IOIteratorNext(args))
    \/ \E args \in In("_IOObjectRelease") : Invoke(MaxIterCalls, _IOObjectRelease(args))

SpecIter == Init /\ [][NextIter]_vars

\* call and the emulation it starts.
NextCall ==
    \/ setup
    \/ MapEnvironment
    \/ \E a \in ResolvedAddrs, n \in ResolvedNames : ResolveHook(a, n)
    \/ \E addr \in CallTargets, args \in CallArgs : call(addr, args)
    \/ CodeHook
    \/ ExecRet
    \/ ExecCall
    \/ ExecMov
    \/ ExecPop
    \/ EmuFault
    \/ EmuStop

SpecCall == Init /\ [][NextCall]_vars

---------------------------------------------------------------------------
(* The loader: get_x64_slice, over OFile::parse of the mach_object crate.  *)

\* a 32-bit field, most significant byte first (the fat header's order) and
\* least significant byte first (the Mach-O header's order on x86-64)
be32(n) == <<(n \div 16777216) % 256, (n \div 65536) % 256, (n \div 256) % 256, n % 256>>
le32(n) == <<n % 256, (n \div 256) % 256, (n \div 65536) % 256, (n \div 16777216) % 256>>
from_be32(bs) == ((bs[1] * 256 + bs[2]) * 256 + bs[3]) * 256 + bs[4]

\* 0xcafebabe, 0xfeedfacf and 0xfeedface as they lie in a file
FatMagic == <<202, 254, 186, 190>>
MachMagic64 == <<207, 250, 237, 254>>
MachMagic32 == <<206, 250, 237, 254>>

\* mach_object::CPU_TYPE_X86_64: CPU_TYPE_X86 | CPU_ARCH_ABI64
CPU_TYPE_X86_64 == 16777223

\* the fat header is two fields long, and each entry of its table five
MachHeaderLen(magic) == IF magic = MachMagic64 THEN 32 ELSE 28

\* field k (0: cputype, 1: cpusubtype, 2: offset, 3: size, 4: align) of
\* entry i of the fat header's table
ArchField(bin, i, k) ==
    LET at == 8 + 20 * (i - 1) + 4 * k
    IN  from_be32(SubSeq(bin, at + 1, at + 4))

FatArch(bin, i) ==
    [cputype |-> ArchField(bin, i, 0), offset |-> ArchField(bin, i, 2),
     size |-> ArchField(bin, i, 3)]

\* OFile::parse of a file that is no fat file: a Mach-O file when the whole
\* header of its magic is there (the files here have no load commands)
ParsesThin(bin) ==
    /\ Len(bin) >= 4
    /\ SubSeq(bin, 1, 4) \in {MachMagic64, MachMagic32}
    /\ Len(bin) >= MachHeaderLen(SubSeq(bin, 1, 4))

\* the index of a range start..end into a slice of len bytes: which panic it
\* is, the start tested before the end, or "" when the range is inside
SliceFail(start, end, len) ==
    IF start > len THEN "range start index out of range"
    ELSE IF end > len THEN "range end index out of range"
    ELSE IF start > end THEN "slice index starts after its end"
    ELSE ""

OFile(kind, files) == [kind |-> kind, panic |-> "", files |-> files]

\* OFile::parse: Err, a MachFile, or a FatFile with one FatArch for each
\* entry of the table; the entries' ranges of the input are parsed in their
\* turn, and the first one that fails decides: a range that leaves the
\* input is the panic of its index, a range that holds no file is Err
OFile_parse(bin) ==
    IF Len(bin) < 4 THEN OFile("Err", <<>>)
    ELSE IF SubSeq(bin, 1, 4) # FatMagic
         THEN IF ParsesThin(bin) THEN OFile("MachFile", <<>>)
              ELSE OFile("Err", <<>>)
    ELSE IF Len(bin) < 8 THEN OFile("Err", <<>>)
    ELSE LET n == from_be32(SubSeq(bin, 5, 8)) IN
         IF Len(bin) < 8 + 20 * n
         THEN OFile("Err", <<>>)
         ELSE LET archs == [i \in 1..n |-> FatArch(bin, i)]
                  leaves(a) == SliceFail(a.offset, a.offset + a.size, Len(bin))
                  fails == {i \in 1..n :
                               \/ leaves(archs[i]) # ""
                               \/ ~ParsesThin(SubSeq(bin, archs[i].offset + 1,
                                                     archs[i].offset + archs[i].size))}
              IN  IF fails = {} THEN OFile("FatFile", archs)
                  ELSE LET a == archs[CHOOSE i \in fails : \A j \in fails : i <= j]
                       IN  IF leaves(a) # ""
                           THEN [kind |-> "OutOfRange", panic |-> leaves(a), files |-> <<>>]
                           ELSE OFile("Err", <<>>)

Loaded(bytes) == [panic |-> "", done |-> TRUE, slice |-> bytes]
LoadPanics(msg) == [panic |-> msg, done |-> TRUE, slice |-> <<>>]

\* a loader that takes the entry's size for the end of its range
get_x64_slice_short(bin) ==
    LET o == OFile_parse(bin) IN
    IF o.kind = "Err" THEN LoadPanics("called Result::unwrap() on an Err value")
    ELSE IF o.kind = "OutOfRange" THEN LoadPanics(o.panic)
    ELSE IF o.kind # "FatFile" THEN LoadPanics("internal error: entered unreachable code")
    ELSE LET hits == {i \in 1..Len(o.files) : o.files[i].cputype = CPU_TYPE_X86_64} IN
         IF hits = {} THEN LoadPanics("called Option::unwrap() on a None value")
         ELSE LET x64 == o.files[CHOOSE i \in hits : \A j \in hits : i <= j] IN
              IF SliceFail(x64.offset, x64.size, Len(bin)) # ""
              THEN LoadPanics(SliceFail(x64.offset, x64.size, Len(bin)))
              ELSE Loaded(SubSeq(bin, x64.offset + 1, x64.size))

\* get_x64_slice: the range offset..offset + size of the first entry whose
\* cputype is CPU_TYPE_X86_64; every failure is a panic (unwrap,
\* unreachable!, the index of a range outside the input), never a value for
\* the caller
get_x64_slice(bin) ==
    LET o == OFile_parse(bin) IN
    IF o.kind = "Err" THEN LoadPanics("called Result::unwrap() on an Err value")
    ELSE IF o.kind = "OutOfRange" THEN LoadPanics(o.panic)
    ELSE IF o.kind # "FatFile" THEN LoadPanics("internal error: entered unreachable code")
    ELSE LET hits == {i \in 1..Len(o.files) : o.files[i].cputype = CPU_TYPE_X86_64} IN
         IF hits = {} THEN LoadPanics("called Option::unwrap() on a None value")
         ELSE LET x64 == o.files[CHOOSE i \in hits : \A j \in hits : i <= j] IN
              IF SliceFail(x64.offset, x64.offset + x64.size, Len(bin)) # ""
              THEN LoadPanics(SliceFail(x64.offset, x64.offset + x64.size, Len(bin)))
              ELSE Loaded(SubSeq(bin, x64.offset + 1, x64.offset + x64.size))

\* load_nac and generate_validation_data: get_x64_slice(load_binary())
LoadSlice ==
    /\ ~x64_slice.done
    /\ x64_slice' = get_x64_slice(binary)
    /\ UNCHANGED <<hooks, resolved_hooks, mapped, mem, regs, heap_size, cf_objects,
                   eth_iterator_hack, overflow_checks, pc, panic_msg, last, pre_cf,
                   hist, issued, allocs, emu, binary, blob, validation, decoded,
                   other, calls, im>>

\* The containers the loader is given.
Zeros(n) == [i \in 1..n |-> 0]

\* a Mach-O file of `size` bytes: under `magic`, a header without load
\* commands for the cpu, then padding
MachO(magic, cputype, size) ==
    LET head == magic \o le32(cputype) \o le32(3) \o le32(2) \o Zeros(16)
    IN  SubSeq(head \o Zeros(size), 1, size)

\* a fat header: the magic, the count, and one entry for each arch
FatHeader(nfat_arch, archs) ==
    LET entry(a) == be32(a.cputype) \o be32(3) \o be32(a.offset) \o be32(a.size)
                    \o be32(0)
        table[i \in 0..Len(archs)] == IF i = 0 THEN <<>> ELSE table[i - 1] \o entry(archs[i])
    IN  FatMagic \o be32(nfat_arch) \o table[Len(archs)]

FoldMax(S) == CHOOSE m \in S : \A x \in S : x <= m

\* a file that starts with `header` and holds each slice at its offset
Laid(header, slices) ==
    LET end == FoldMax({Len(header)} \cup {s.offset + Len(s.bytes) : s \in slices})
        at(p) == {s \in slices : s.offset < p /\ p <= s.offset + Len(s.bytes)}
    IN  [p \in 1..end |->
            IF at(p) # {} THEN LET s == CHOOSE s \in at(p) : TRUE
                               IN  s.bytes[p - s.offset]
            ELSE IF p <= Len(header) THEN header[p] ELSE 0]


\* x86-64, arm64 and i386
Cpus == {CPU_TYPE_X86_64, 16777228, 7}
MagicOf(cputype) == IF cputype >= 16777216 THEN MachMagic64 ELSE MachMagic32
SliceSizes == {32, 40}

Arch(c, o, z) == [cputype |-> c, offset |-> o, size |-> z]
SliceOf(a) == [offset |-> a.offset, bytes |-> MachO(MagicOf(a.cputype), a.cputype, a.size)]

\* a well-formed fat file: each entry's range holds a Mach-O file of its cpu
FatFile(archs) ==
    Laid(FatHeader(Len(archs), archs), {SliceOf(archs[i]) : i \in 1..Len(archs)})

WellFormed ==
    {FatFile(<<Arch(c, o, z)>>) : c \in Cpus, o \in {28, 48}, z \in SliceSizes}
    \cup {FatFile(<<Arch(c1, o, z1), Arch(c2, o + z1, z2)>>) :
             c1 \in Cpus, c2 \in Cpus, o \in {48, 64}, z1 \in SliceSizes, z2 \in SliceSizes}

\* what is no fat file with readable entries: nothing, a cut magic, a text,
\* a Mach-O file of one architecture, a table cut short, an entry whose
\* range leaves the input (by its offset, by its size), and an entry whose
\* range holds no Mach-O file
Malformed ==
    LET x64 == Arch(CPU_TYPE_X86_64, 48, 32)
        arm == Arch(16777228, 80, 32)
    IN  { <<>>,
          <<202, 254, 186>>,
          <<110, 111, 116, 32, 102, 97, 116, 33>>,
          MachO(MachMagic64, CPU_TYPE_X86_64, 32),
          MachO(MachMagic32, 7, 28),
          FatHeader(0, <<>>),
          FatHeader(2, <<x64>>),
          Laid(FatHeader(2, <<x64, Arch(16777228, 200, 32)>>), {SliceOf(x64)}),
          Laid(FatHeader(2, <<Arch(CPU_TYPE_X86_64, 200, 32), arm>>), {SliceOf(arm)}),
          Laid(FatHeader(1, <<Arch(CPU_TYPE_X86_64, 28, 64)>>),
               {SliceOf(Arch(CPU_TYPE_X86_64, 28, 32))}),
          Laid(FatHeader(1, <<x64>>), {[offset |-> 48, bytes |-> Zeros(32)]}) }

Containers == WellFormed \cup Malformed

\* the loader alone, given any of the containers
InitLoad ==
    /\ JellyIs(Jelly_new(<<>>)) /\ RunInit /\ DriverIdle /\ Alone /\ Unsent
    /\ binary \in Containers
    /\ x64_slice = NotLoaded

NextLoad == LoadSlice

SpecLoad == InitLoad /\ [][NextLoad]_vars

---------------------------------------------------------------------------
(* The driver: generate_validation_data, base64_encode and base64_decode.  *)
(* A String is held as its bytes.                                          *)

\* the alphabet of base64's STANDARD engine: A-Z, a-z, 0-9, + and /
Symbol(v) ==
    IF v < 26 THEN 65 + v
    ELSE IF v < 52 THEN 97 + (v - 26)
    ELSE IF v < 62 THEN 48 + (v - 52)
    ELSE IF v = 62 THEN 43 ELSE 47

Symbols == {Symbol(v) : v \in 0..63}
SymbolValue(c) == CHOOSE v \in 0..63 : Symbol(v) = c

\* '='
Pad == 61

\* an encoder that leaves the padding out
base64_encode_unpadded(data) ==
    LET n == Len(data)
        byte(i) == IF i <= n THEN data[i] ELSE 0
        sextet(q, r) ==
            LET b1 == byte(3 * q + 1)
                b2 == byte(3 * q + 2)
                b3 == byte(3 * q + 3)
            IN  IF r = 0 THEN b1 \div 4
                ELSE IF r = 1 THEN (b1 % 4) * 16 + (b2 \div 16)
                ELSE IF r = 2 THEN (b2 % 16) * 4 + (b3 \div 64)
                ELSE b3 % 64
        chars == (n \div 3) * 4 + (IF n % 3 = 0 THEN 0 ELSE (n % 3) + 1)
    IN  [k \in 1..chars |-> Symbol(sextet((k - 1) \div 4, (k - 1) % 4))]

\* util::base64_encode: general_purpose::STANDARD.encode(data)
base64_encode(data) ==
    LET n == Len(data)
        byte(i) == IF i <= n THEN data[i] ELSE 0
        sextet(q, r) ==
            LET b1 == byte(3 * q + 1)
                b2 == byte(3 * q + 2)
                b3 == byte(3 * q + 3)
            IN  IF r = 0 THEN b1 \div 4
                ELSE IF r = 1 THEN (b1 % 4) * 16 + (b2 \div 16)
                ELSE IF r = 2 THEN (b2 % 16) * 4 + (b3 \div 64)
                ELSE b3 % 64
        chars == ((n + 2) \div 3) * 4
    IN  [k \in 1..chars |->
            LET q == (k - 1) \div 4
                r == (k - 1) % 4
            IN  IF r <= 1 \/ 3 * q + r <= n THEN Symbol(sextet(q, r)) ELSE Pad]

Ran(text) == [panic |-> "", done |-> TRUE, text |-> text]
RunPanics(msg) == [panic |-> msg, done |-> TRUE, text |-> <<>>]

\* char::is_whitespace, on the UTF-8 bytes of a str: the length of the
\* White_Space character that starts at position i, 0 when none does.
\* U+0009..U+000D and U+0020; U+0085 and U+00A0; U+1680; U+2000..U+200A,
\* U+2028, U+2029 and U+202F; U+205F; U+3000.
IsSpace(text, i) ==
    LET b(k) == IF i + k >= 1 /\ i + k <= Len(text) THEN text[i + k] ELSE 256
    IN  IF b(0) \in {9, 10, 11, 12, 13, 32} THEN 1
        ELSE IF b(0) = 194 /\ b(1) \in {133, 160} THEN 2
        ELSE IF b(0) = 225 /\ b(1) = 154 /\ b(2) = 128 THEN 3
        ELSE IF b(0) = 226 /\ b(1) = 128 /\ b(2) \in (128..138) \cup {168, 169, 175}
             THEN 3
        ELSE IF b(0) = 226 /\ b(1) = 129 /\ b(2) = 159 THEN 3
        ELSE IF b(0) = 227 /\ b(1) = 128 /\ b(2) = 128 THEN 3
        ELSE 0

RECURSIVE trim_start(_)
\* str::trim_start
trim_start(text) ==
    IF IsSpace(text, 1) = 0 THEN text
    ELSE trim_start(SubSeq(text, IsSpace(text, 1) + 1, Len(text)))

RECURSIVE trim_end(_)
\* str::trim_end: the character that ends the text is one, two or three
\* bytes long
trim_end(text) ==
    LET n == Len(text)
        ends == {k \in 1..3 : IsSpace(text, n - k + 1) = k}
    IN  IF ends = {} THEN text
        ELSE trim_end(SubSeq(text, 1, n - (CHOOSE k \in ends : TRUE)))

\* str::trim: the text without the White_Space characters at its ends
trim(text) == trim_end(trim_start(text))

\* util::base64_decode: general_purpose::STANDARD.decode(data.trim()).unwrap().
\* The engine wants whole groups of four, padding only at the end of the
\* last group, and no bits set beyond the last byte.
base64_decode(text) ==
    LET t == trim(text)
        n == Len(t)
        pads == IF n >= 2 /\ t[n] = Pad /\ t[n - 1] = Pad THEN 2
                ELSE IF n >= 1 /\ t[n] = Pad THEN 1 ELSE 0
        val(k) == IF k <= n - pads THEN SymbolValue(t[k]) ELSE 0
        octet(q, r) ==
            LET v1 == val(4 * q + 1)
                v2 == val(4 * q + 2)
                v3 == val(4 * q + 3)
                v4 == val(4 * q + 4)
            IN  IF r = 0 THEN v1 * 4 + (v2 \div 16)
                ELSE IF r = 1 THEN (v2 % 16) * 16 + (v3 \div 4)
                ELSE (v3 % 4) * 64 + v4
        err == RunPanics("called Result::unwrap() on an Err value")
    IN  IF n % 4 # 0 THEN err
        ELSE IF \E k \in 1..(n - pads) : t[k] \notin Symbols THEN err
        ELSE IF pads = 1 /\ val(n - 1) % 4 # 0 THEN err
        ELSE IF pads = 2 /\ val(n - 2) % 16 # 0 THEN err
        ELSE Ran([j \in 1..((n \div 4) * 3 - pads) |->
                     octet((j - 1) \div 3, (j - 1) % 3)])

\* "validation data"
ValidationData ==
    <<118, 97, 108, 105, 100, 97, 116, 105, 111, 110, 32, 100, 97, 116, 97>>

driver_unchanged ==
    UNCHANGED <<hooks, resolved_hooks, mapped, mem, regs, heap_size, cf_objects,
                eth_iterator_hack, overflow_checks, pc, panic_msg, last, pre_cf,
                hist, issued, allocs, emu, binary, blob, other, calls, im>>

\* emulated::generate_validation_data (mod.rs): the bytes the bundled
\* emulation returned, base64 encoded
\* Every step of the closure that fails (a module that does not load, an
\* exception of the emulation, a result that is no bytes) is an Err that the
\* unwrap on the closure's result turns into a panic.
generate_validation_data ==
    /\ ~validation.done
    /\ \E python \in {"returns", "raises"} :
          validation' = IF python = "raises"
                        THEN RunPanics("called Result::unwrap() on an Err value")
                        ELSE Ran(base64_encode(blob))
    /\ UNCHANGED <<x64_slice, decoded>>
    /\ driver_unchanged

\* nac::generate_validation_data: the loader is run, its slice is dropped and
\* the literal is returned
nac_generate_validation_data ==
    /\ ~validation.done
    /\ x64_slice' = get_x64_slice(binary)
    /\ validation' = IF x64_slice'.panic # "" THEN RunPanics(x64_slice'.panic)
                     ELSE Ran(ValidationData)
    /\ UNCHANGED decoded
    /\ driver_unchanged

\* the caller decodes what generate returned
DecodeValidation ==
    /\ validation.done /\ validation.panic = ""
    /\ ~decoded.done
    /\ decoded' = base64_decode(validation.text)
    /\ UNCHANGED <<x64_slice, validation>>
    /\ driver_unchanged

\* The bytes an emulated run can hand over: of every length up to
\* MaxBlobLen, none included, over bytes whose sextets cross every boundary.
MaxBlobLen == 4
BlobBytes == {0, 77, 255}
Blobs == UNION {[1..n -> BlobBytes] : n \in 0..MaxBlobLen}

\* the bundled container: one that holds the x86-64 slice
BundledBinary == FatFile(<<Arch(CPU_TYPE_X86_64, 28, 32)>>)

InitGen ==
    /\ JellyIs(Jelly_new(<<>>)) /\ RunInit /\ Alone /\ Unsent
    /\ binary = BundledBinary
    /\ x64_slice = NotLoaded
    /\ blob \in Blobs
    /\ validation = NotRun
    /\ decoded = NotRun

NextGen ==
    \/ generate_validation_data
    \/ nac_generate_validation_data
    \/ DecodeValidation

SpecGen == InitGen /\ [][NextGen]_vars

---------------------------------------------------------------------------
(* Two harness instances: load_nac called twice, each Jelly invoked in its *)
(* turn.                                                                   *)

\* hook invocations on the two instances together, in one run of SpecTwo
MaxTwoCalls == 4

\* this Jelly, as a value
ThisJelly ==
    [binary |-> x64_slice.slice,
     hooks |-> hooks, resolved_hooks |-> resolved_hooks, mapped |-> mapped,
     mem |-> mem, regs |-> regs, heap_size |-> heap_size,
     cf_objects |-> cf_objects, eth_iterator_hack |-> eth_iterator_hack]

\* Jelly::setup, on the value j
SetUp(j) ==
    [j EXCEPT !.hooks = j.hooks \cup LoadedHooks,
              !.mapped = j.mapped \cup {HookRegion},
              !.mem = [a \in {x \in DOMAIN j.mem : ~InRegion(x, HookRegion)} |-> j.mem[a]]]

\* load_nac, for the second instance:
\* `let binary = get_x64_slice(load_binary()); ...
\*  let mut j = Jelly::new(binary); j.setup(hooks); j`.
\* A container get_x64_slice panics on ends the call before a Jelly is made.
load_nac ==
    /\ ~other.made
    /\ pc \in {"new", "ready"}
    /\ LET slice == get_x64_slice(binary) IN
       IF slice.panic # ""
       THEN /\ pc' = "panic"
            /\ panic_msg' = slice.panic
            /\ UNCHANGED other
       ELSE /\ other' = [made |-> TRUE, jelly |-> SetUp(Jelly_new(slice.slice)),
                         pc |-> "ready", panic_msg |-> "", issued |-> <<>>,
                         allocs |-> <<>>]
            /\ UNCHANGED <<pc, panic_msg>>
    /\ UNCHANGED <<hooks, resolved_hooks, mapped, mem, regs, heap_size, cf_objects,
                   eth_iterator_hack, overflow_checks, last, pre_cf,
                   hist, issued, allocs, emu, binary, x64_slice, blob, validation,
                   decoded, calls, im>>

\* the surrounding system turns to the other instance: the next operation is
\* invoked on it, and the one that was invoked is set aside as it is
Switch ==
    /\ other.made
    /\ ~emu.active
    /\ hooks' = other.jelly.hooks
    /\ resolved_hooks' = other.jelly.resolved_hooks
    /\ mapped' = other.jelly.mapped
    /\ mem' = other.jelly.mem
    /\ regs' = other.jelly.regs
    /\ heap_size' = other.jelly.heap_size
    /\ cf_objects' = other.jelly.cf_objects
    /\ eth_iterator_hack' = other.jelly.eth_iterator_hack
    /\ pc' = other.pc
    /\ panic_msg' = other.panic_msg
    /\ issued' = other.issued
    /\ allocs' = other.allocs
    /\ other' = [made |-> TRUE, jelly |-> ThisJelly, pc |-> pc,
                 panic_msg |-> panic_msg, issued |-> issued, allocs |-> allocs]
    /\ x64_slice' = Loaded(other.jelly.binary)
    /\ calls' = [this |-> calls.that, that |-> calls.this]
    /\ UNCHANGED <<overflow_checks, last, pre_cf, hist, emu, binary,
                   blob, validation, decoded, im>>

\* a hook invoked on this Jelly, the invocation kept in its history
InvokeOn(bound, A) ==
    /\ pc = "ready" /\ ncalls < bound
    /\ A
    /\ calls' = [calls EXCEPT !.this = Append(@, last')]
    /\ UNCHANGED machine_vars

\* the state inside the first load_nac, after its Jelly::new: the bundled
\* container has been cut and the Jelly keeps the slice
InitTwo ==
    /\ JellyIs(Jelly_new(get_x64_slice(BundledBinary).slice))
    /\ RunInit /\ DriverIdle /\ Alone /\ Unsent
    /\ binary = BundledBinary
    /\ x64_slice = get_x64_slice(BundledBinary)

NextTwo ==
    \/ setup
    \/ load_nac
    \/ Switch
    \/ \E args \in {<<W(8)>>, <<W(24)>>} : InvokeOn(MaxTwoCalls, _malloc(args))
    \/ \E args \in In("_CFDictionaryCreateMutable") : InvokeOn(MaxTwoCalls, _CFDictionaryCreateMutable(args))
    \/ \E args \in In("_DADiskCopyDescription") : InvokeOn(MaxTwoCalls, _DADiskCopyDescription(args))
    \/ \E args \in {<<W(0), W(1), W(HOOK_BASE + 16)>>} : InvokeOn(MaxTwoCalls, _IOServiceGetMatchingServices(args))
    \/ \E args \in In("_IOIteratorNext") : InvokeOn(MaxTwoCalls, _IOIteratorNext(args))

SpecTwo == InitTwo /\ [][NextTwo]_vars

---------------------------------------------------------------------------
(* Two instances, each invocation kept with the states around it.          *)

\* hook invocations on one instance in one run of SpecPure
MaxPureCalls == 2

\* the two instances are given the same calls in turn: a call is given to
\* one instance, any call, and then to the other, before the next call is
\* given to either
Given(name, args) ==
    LET k == Len(calls.this) + 1
    IN  IF k <= Len(calls.that)
        THEN calls.that[k].inv.name = name /\ calls.that[k].inv.args = args
        ELSE Len(calls.this) = Len(calls.that)

\* a hook invoked on this Jelly with one of the argument lists of In, kept
\* with the Jelly before and after it and with how it ended: "ready" when
\* it returned, "panic", or "abort" when the process was ended.  The hooks
\* are called by the code of the image, so the image is mapped by then.
InvokeFrom(bound, name, A(_)) ==
    /\ pc = "ready" /\ Len(calls.this) < bound
    /\ ImageRegion \in mapped
    /\ \E args \in In(name) :
          /\ Given(name, args)
          /\ A(args)
    /\ UNCHANGED machine_vars
    /\ calls' = [calls EXCEPT !.this =
                    Append(@, [pre |-> ThisJelly, inv |-> last', post |-> ThisJelly',
                               end |-> pc', msg |-> panic_msg'])]

\* _arc4random with any of the draws
Draws(args) == \E r \in RandomDraws : _arc4random(args, r)

NextPure ==
    \/ setup
    \/ MapEnvironment
    \/ load_nac
    \/ Switch
    \/ InvokeFrom(MaxPureCalls, "_malloc", _malloc)
    \/ InvokeFrom(MaxPureCalls, "___stack_chk_guard", ___stack_chk_guard)
    \/ InvokeFrom(MaxPureCalls, "___memset_chk", ___memset_chk)
    \/ InvokeFrom(MaxPureCalls, "_sysctlbyname", _sysctlbyname)
    \/ InvokeFrom(MaxPureCalls, "_memcpy", _memcpy)
    \/ InvokeFrom(MaxPureCalls, "_kIOMasterPortDefault", _kIOMasterPortDefault)
    \/ InvokeFrom(MaxPureCalls, "_IORegistryEntryFromPath", _IORegistryEntryFromPath)
    \/ InvokeFrom(MaxPureCalls, "_kCFAllocatorDefault", _kCFAllocatorDefault)
    \/ InvokeFrom(MaxPureCalls, "_IORegistryEntryCreateCFProperty", _IORegistryEntryCreateCFProperty)
    \/ InvokeFrom(MaxPureCalls, "_CFGetTypeID", _CFGetTypeID)
    \/ InvokeFrom(MaxPureCalls, "_CFStringGetTypeID", _CFStringGetTypeID)
    \/ InvokeFrom(MaxPureCalls, "_CFDataGetTypeID", _CFDataGetTypeID)
    \/ InvokeFrom(MaxPureCalls, "_CFDataGetLength", _CFDataGetLength)
    \/ InvokeFrom(MaxPureCalls, "_CFDataGetBytes", _CFDataGetBytes)
    \/ InvokeFrom(MaxPureCalls, "_CFRelease", _CFRelease)
    \/ InvokeFrom(MaxPureCalls, "_IOObjectRelease", _IOObjectRelease)
    \/ InvokeFrom(MaxPureCalls, "_statfs_INODE64", _statfs_INODE64)
    \/ InvokeFrom(MaxPureCalls, "_DASessionCreate", _DASessionCreate)
    \/ InvokeFrom(MaxPureCalls, "_DADiskCreateFromBSDName", _DADiskCreateFromBSDName)
    \/ InvokeFrom(MaxPureCalls, "_kDADiskDescriptionVolumeUUIDKey", _kDADiskDescriptionVolumeUUIDKey)
    \/ InvokeFrom(MaxPureCalls, "_DADiskCopyDescription", _DADiskCopyDescription)
    \/ InvokeFrom(MaxPureCalls, "_CFDictionaryGetValue", _CFDictionaryGetValue)
    \/ InvokeFrom(MaxPureCalls, "_CFUUIDCreateString", _CFUUIDCreateString)
    \/ InvokeFrom(MaxPureCalls, "_CFStringGetLength", _CFStringGetLength)
    \/ InvokeFrom(MaxPureCalls, "_CFStringGetMaximumSizeForEncoding", _CFStringGetMaximumSizeForEncoding)
    \/ InvokeFrom(MaxPureCalls, "_CFStringGetCString", _CFStringGetCString)
    \/ InvokeFrom(MaxPureCalls, "_free", _free)
    \/ InvokeFrom(MaxPureCalls, "_IOServiceMatching", _IOServiceMatching)
    \/ InvokeFrom(MaxPureCalls, "_IOServiceGetMatchingService", _IOServiceGetMatchingService)
    \/ InvokeFrom(MaxPureCalls, "_CFDictionaryCreateMutable", _CFDictionaryCreateMutable)
    \/ InvokeFrom(MaxPureCalls, "_kCFBooleanTrue", _kCFBooleanTrue)
    \/ InvokeFrom(MaxPureCalls, "_CFDictionarySetValue", _CFDictionarySetValue)
    \/ InvokeFrom(MaxPureCalls, "_IOServiceGetMatchingServices", _IOServiceGetMatchingServices)
    \/ InvokeFrom(MaxPureCalls, "_IOIteratorNext", _IOIteratorNext)
    \/ InvokeFrom(MaxPureCalls, "___bzero", ___bzero)
    \/ InvokeFrom(MaxPureCalls, "_IORegistryEntryGetParentEntry", _IORegistryEntryGetParentEntry)
    \/ InvokeFrom(MaxPureCalls, "_arc4random", Draws)

SpecPure == InitTwo /\ [][NextPure]_vars

---------------------------------------------------------------------------
(* A dictionary stored in a dictionary.                                    *)

\* hook invocations in one run of SpecRef
MaxRefCalls == 6

\* handle 1 is the disk description, handle 2 the string read from it, and
\* handle 3 a dictionary made after them
NextRef ==
    \/ setup
    \/ \E args \in In("_DADiskCopyDescription") : InvokeOn(MaxRefCalls, _DADiskCopyDescription(args))
    \/ \E args \in In("_CFDictionaryCreateMutable") : InvokeOn(MaxRefCalls, _CFDictionaryCreateMutable(args))
    \/ \E args \in {<<W(1), SentinelKey>>, <<W(1), W(2)>>, <<W(3), W(2)>>} :
            InvokeOn(MaxRefCalls, _CFDictionaryGetValue(args))
    \/ \E args \in {<<W(1), W(2), W(3)>>, <<W(3), W(2), W(2)>>} :
            InvokeOn(MaxRefCalls, _CFDictionarySetValue(args))

SpecRef == Init /\ [][NextRef]_vars

---------------------------------------------------------------------------
(* imessage/messages.rs: IMessageContainer, the AES-256-CTR stream between *)
(* an attachment and its reader or writer.                                 *)

\* operations on one container in one run of SpecContainer
MaxContainerCalls == 4

\* what the operations on a message leave alone
message_unchanged ==
    UNCHANGED <<hooks, resolved_hooks, mapped, mem, regs, heap_size, cf_objects,
                eth_iterator_hack, overflow_checks, pc, panic_msg, last, pre_cf,
                hist, issued, allocs, emu, binary, x64_slice, blob, validation,
                decoded, other, calls>>

RECURSIVE Xor(_, _)
\* the exclusive or of two bytes
Xor(a, b) ==
    IF a = 0 /\ b = 0 THEN 0
    ELSE ((a + b) % 2) + (2 * Xor(a \div 2, b \div 2))

\* AES (FIPS 197), as Cipher::aes_256_ctr() of the openssl crate computes it.
\* The substitution box.
SBox ==
    <<99, 124, 119, 123, 242, 107, 111, 197,  48,   1, 103,  43, 254, 215, 171, 118,
      202, 130, 201, 125, 250,  89,  71, 240, 173, 212, 162, 175, 156, 164, 114, 192,
      183, 253, 147,  38,  54,  63, 247, 204,  52, 165, 229, 241, 113, 216,  49,  21,
        4, 199,  35, 195,  24, 150,   5, 154,   7,  18, 128, 226, 235,  39, 178, 117,
        9, 131,  44,  26,  27, 110,  90, 160,  82,  59, 214, 179,  41, 227,  47, 132,
       83, 209,   0, 237,  32, 252, 177,  91, 106, 203, 190,  57,  74,  76,  88, 207,
      208, 239, 170, 251,  67,  77,  51, 133,  69, 249,   2, 127,  80,  60, 159, 168,
       81, 163,  64, 143, 146, 157,  56, 245, 188, 182, 218,  33,  16, 255, 243, 210,
      205,  12,  19, 236,  95, 151,  68,  23, 196, 167, 126,  61, 100,  93,  25, 115,
       96, 129,  79, 220,  34,  42, 144, 136,  70, 238, 184,  20, 222,  94,  11, 219,
      224,  50,  58,  10,  73,   6,  36,  92, 194, 211, 172,  98, 145, 149, 228, 121,
      231, 200,  55, 109, 141, 213,  78, 169, 108,  86, 244, 234, 101, 122, 174,   8,
      186, 120,  37,  46,  28, 166, 180, 198, 232, 221, 116,  31,  75, 189, 139, 138,
      112,  62, 181, 102,  72,   3, 246,  14,  97,  53,  87, 185, 134, 193,  29, 158,
      225, 248, 152,  17, 105, 217, 142, 148, 155,  30, 135, 233, 206,  85,  40, 223,
      140, 161, 137,  13, 191, 230,  66, 104,  65, 153,  45,  15, 176,  84, 187,  22 >>

\* a sequence of 16 bytes, each byte computed once
Bytes16(F(_)) ==
    <<F(1), F(2), F(3), F(4), F(5), F(6), F(7), F(8),
      F(9), F(10), F(11), F(12), F(13), F(14), F(15), F(16)>>

\* multiplication by x in GF(2^8), modulo x^8 + x^4 + x^3 + x + 1
xtime(b) == IF b < 128 THEN 2 * b ELSE Xor((2 * b) % 256, 27)

\* the round constants of the key schedule
Rcon == <<1, 2, 4, 8, 16, 32, 64>>

RECURSIVE KeyExpansion(_)
\* the key schedule of a 256-bit key: the 15 round keys, 240 bytes, grown
\* one 4-byte word at a time from the bytes there are
KeyExpansion(ek) ==
    IF Len(ek) >= 240 THEN ek
    ELSE LET nw == Len(ek) \div 4
             t1 == ek[Len(ek) - 3]
             t2 == ek[Len(ek) - 2]
             t3 == ek[Len(ek) - 1]
             t4 == ek[Len(ek)]
             temp == IF nw % 8 = 0
                     THEN <<Xor(SBox[t2 + 1], Rcon[nw \div 8]), SBox[t3 + 1],
                            SBox[t4 + 1], SBox[t1 + 1]>>
                     ELSE IF nw % 8 = 4
                     THEN <<SBox[t1 + 1], SBox[t2 + 1], SBox[t3 + 1], SBox[t4 + 1]>>
                     ELSE <<t1, t2, t3, t4>>
             back == Len(ek) - 32
         IN  KeyExpansion(ek \o <<Xor(ek[back + 1], temp[1]), Xor(ek[back + 2], temp[2]),
                                  Xor(ek[back + 3], temp[3]), Xor(ek[back + 4], temp[4])>>)

\* the state with round key rnd of the schedule ek added
AddRoundKey(st, ek, rnd) == Bytes16(LAMBDA i : Xor(st[i], ek[(16 * rnd) + i]))

SubBytes(st) == Bytes16(LAMBDA i : SBox[st[i] + 1])

\* row r of the state (bytes r, r + 4, r + 8, r + 12, counted from 0) is
\* rotated left by r
ShiftRows(st) ==
    Bytes16(LAMBDA i : st[((i - 1) % 4) + (4 * ((((i - 1) \div 4) + ((i - 1) % 4)) % 4)) + 1])

\* each column is multiplied by the fixed polynomial {03}x^3 + {01}x^2 + {01}x + {02}
MixColumns(st) ==
    Bytes16(LAMBDA i :
        LET col == 4 * ((i - 1) \div 4)
            row == (i - 1) % 4
            a(k) == st[col + ((row + k) % 4) + 1]
        IN  Xor(Xor(xtime(a(0)), Xor(xtime(a(1)), a(1))), Xor(a(2), a(3))))

RECURSIVE Rounds(_, _, _)
\* rounds rnd..14 of the cipher on a state of 16 bytes: the last one mixes
\* no columns
Rounds(st, ek, rnd) ==
    IF Len(st) # 16 THEN <<>>
    ELSE IF rnd = 14 THEN AddRoundKey(ShiftRows(SubBytes(st)), ek, 14)
    ELSE Rounds(AddRoundKey(MixColumns(ShiftRows(SubBytes(st))), ek, rnd), ek, rnd + 1)

\* the encryption of one 16-byte block under a 32-byte key
aes_256(key, block) ==
    LET ek == KeyExpansion(key)
    IN  Rounds(AddRoundKey(block, ek, 0), ek, 1)

\* the counter block of block n of the stream: ZERO_NONCE, as a big-endian
\* number, plus n
CounterBlock(n) ==
    Bytes16(LAMBDA i : IF i <= 12 THEN 0
                       ELSE IF i = 13 THEN (n \div 16777216) % 256
                       ELSE IF i = 14 THEN (n \div 65536) % 256
                       ELSE IF i = 15 THEN (n \div 256) % 256
                       ELSE n % 256)

\* the keys of the runs: 32 zero bytes, and the bytes 1..32
ZeroKey == [i \in 1..32 |-> 0]
CountKey == [i \in 1..32 |-> i]

\* the first two blocks of the stream under each of them, computed once
ZeroKeyStream == aes_256(ZeroKey, CounterBlock(0)) \o aes_256(ZeroKey, CounterBlock(1))
CountKeyStream == aes_256(CountKey, CounterBlock(0)) \o aes_256(CountKey, CounterBlock(1))

\* the byte at position p, counted from 0, of the key stream of AES-256-CTR
\* under key and ZERO_NONCE: byte p % 16 of the encryption of counter block
\* p \div 16
KeyStream(key, p) ==
    IF key = ZeroKey /\ p < 32 THEN ZeroKeyStream[p + 1]
    ELSE IF key = CountKey /\ p < 32 THEN CountKeyStream[p + 1]
    ELSE aes_256(key, CounterBlock(p \div 16))[(p % 16) + 1]

\* Crypter::new(Cipher::aes_256_ctr(), mode, key, Some(&ZERO_NONCE)): an Err
\* for a key that is not 32 bytes long
Crypter_new(mode, key) ==
    [err |-> IF Len(key) = 32 THEN "" ELSE "invalid key length",
     mode |-> mode, key |-> key, fed |-> 0, finalized |-> 0]

\* Crypter::update: the data, each byte combined with the key stream at its
\* position; in counter mode encryption and decryption are the same
Crypter_update(crypter, data) ==
    [crypter |-> [crypter EXCEPT !.fed = @ + Len(data)],
     out |-> [i \in 1..Len(data) |-> Xor(data[i], KeyStream(crypter.key, crypter.fed + i - 1))]]

\* Crypter::finalize: a stream cipher holds no partial block, nothing is left
\* to write
Crypter_finalize(crypter) ==
    [crypter |-> [crypter EXCEPT !.finalized = @ + 1], out |-> <<>>]

\* IMessageContainer::new.  The writer and the reader are trait objects the
\* caller hands in, each named by what its calls do.  A writer is "none",
\* "open" (a write takes all it is given), "partial" (a write takes one
\* byte and returns Ok(1)) or "closed" (a write returns Err).  A reader is
\* "none", "all" (a read fills the buffer as far as the source goes), "one"
\* (a read hands over one byte), "fail" (a read returns Err) or "failempty"
\* (as "all", and an Err once the source is empty); it holds the bytes
\* source.  The unwrap of the Crypter panics on a key of another length
\* than 32, and no container is made.
IMessageContainer_new(key, writer, reader, source) ==
    LET crypter == Crypter_new(IF writer # "none" THEN "Decrypt" ELSE "Encrypt", key)
    IN  [made |-> crypter.err = "",
         crypter |-> crypter,
         writer |-> writer, sink |-> <<>>,
         reader |-> reader, source |-> source,
         cacher |-> <<>>,
         finalized |-> FALSE,
         ret |-> [ok |-> TRUE, bytes |-> <<>>],
         panic |-> IF crypter.err = "" THEN ""
                   ELSE "called Result::unwrap() on an Err value",
         log |-> <<>>,
         ops |-> 0]

\* a finish that does not look at the flag
finish_again(c) ==
    LET f == Crypter_finalize(c.crypter)
    IN  [c |-> [c EXCEPT !.finalized = TRUE, !.crypter = f.crypter], out |-> f.out]

\* IMessageContainer::finish: the container after it, and the bytes returned
finish(c) ==
    IF c.finalized THEN [c |-> c, out |-> <<>>]
    ELSE LET f == Crypter_finalize(c.crypter)
         IN  [c |-> [c EXCEPT !.finalized = TRUE, !.crypter = f.crypter], out |-> f.out]

\* history: the finish made by op on the container c, with result f
Finished(c, op, f) ==
    [f.c EXCEPT !.log = Append(@, [op |-> op, flag |-> c.finalized, out |-> f.out,
                                   touched |-> f.c.crypter # c.crypter,
                                   wrote |-> <<>>])]

\* the result of an operation
Ok(c, bytes) == [c EXCEPT !.ret = [ok |-> TRUE, bytes |-> bytes], !.ops = @ + 1]
Err(c) == [c EXCEPT !.ret = [ok |-> FALSE, bytes |-> <<>>], !.ops = @ + 1]
Unwrapped(c) ==
    [c EXCEPT !.panic = "called Option::unwrap() on a None value", !.ops = @ + 1]

\* Write::write of the writer on buf: the bytes that reach the sink
Written(writer, buf) ==
    IF writer = "open" THEN buf
    ELSE IF writer = "partial" /\ buf # <<>> THEN <<buf[1]>>
    ELSE <<>>

\* Read::read of the reader into a buffer of len bytes: an Err, or the
\* number of bytes handed over
ReadFails(c) == c.reader = "fail" \/ (c.reader = "failempty" /\ c.source = <<>>)
ReadCount(c, len) ==
    LET most == IF c.reader = "one" /\ len > 1 THEN 1 ELSE len
    IN  IF Len(c.source) < most THEN Len(c.source) ELSE most

\* DataCacher::read_exact: the first len bytes held, when that many are held
Cached(c, len) == Len(c.cacher) >= len
read_exact(c, len) ==
    Ok([c EXCEPT !.cacher = SubSeq(@, len + 1, Len(@))], SubSeq(c.cacher, 1, len))
\* DataCacher::read_all
read_all(c) == Ok([c EXCEPT !.cacher = <<>>], c.cacher)
\* DataCacher::data_avail
data_avail(c, bytes) == [c EXCEPT !.cacher = @ \o bytes]

RECURSIVE ReadLoop(_, _)
\* the loop of Container::read while the cacher holds fewer than len bytes
ReadLoop(c, len) ==
    IF c.reader = "none" THEN Unwrapped(c)
    ELSE IF ReadFails(c) THEN Err(c)
    ELSE LET read == ReadCount(c, len) IN
         IF read = 0
         THEN LET f == finish(c)
                  got == data_avail(Finished(c, "read", f), f.out)
              IN  IF Cached(got, len) THEN read_exact(got, len) ELSE read_all(got)
         ELSE LET u == Crypter_update(c.crypter, SubSeq(c.source, 1, read))
                  got == data_avail([c EXCEPT !.crypter = u.crypter,
                                              !.source = SubSeq(@, read + 1, Len(@))],
                                    u.out)
              IN  IF Cached(got, len) THEN read_exact(got, len) ELSE ReadLoop(got, len)

\* Container::read
Container_read(c, len) == IF Cached(c, len) THEN read_exact(c, len) ELSE ReadLoop(c, len)

\* Container::write
Container_write(c, data) ==
    LET u == Crypter_update(c.crypter, data)
        fed == [c EXCEPT !.crypter = u.crypter]
    IN  IF c.writer = "none" THEN Unwrapped(fed)
        ELSE IF c.writer = "closed" THEN Err(fed)
        ELSE Ok([fed EXCEPT !.sink = @ \o Written(c.writer, u.out)], <<>>)

\* Container::finalize
Container_finalize(c) ==
    LET f == finish(c)
        done == Finished(c, "finalize", f)
    IN  IF c.writer = "none" THEN Ok(done, <<>>)
        ELSE IF c.writer = "closed" THEN Err(done)
        ELSE Ok([done EXCEPT !.sink = @ \o Written(c.writer, f.out),
                             !.log[Len(done.log)].wrote = Written(c.writer, f.out)],
                <<>>)

Usable == im.made /\ im.panic = "" /\ im.ops < MaxContainerCalls

ReadStep(len) == Usable /\ im' = Container_read(im, len) /\ message_unchanged
WriteStep(data) == Usable /\ im' = Container_write(im, data) /\ message_unchanged
FinalizeStep == Usable /\ im' = Container_finalize(im) /\ message_unchanged

InitContainer ==
    /\ JellyIs(Jelly_new(<<>>)) /\ RunInit /\ LoaderIdle /\ DriverIdle /\ Alone
    /\ \E key \in {ZeroKey, CountKey, <<1, 2>>},
          writer \in {"none", "open", "partial", "closed"},
          reader \in {"none", "all", "one", "fail", "failempty"},
          source \in {<<>>, <<5>>, <<5, 6, 7>>} :
            /\ reader = "none" => source = <<>>
            /\ im = IMessageContainer_new(key, writer, reader, source)

NextContainer ==
    \/ \E len \in 0..2 : ReadStep(len)
    \/ \E data \in {<<>>, <<65>>, <<65, 200>>} : WriteStep(data)
    \/ FinalizeStep

SpecContainer == InitContainer /\ [][NextContainer]_vars

---------------------------------------------------------------------------
(* imessage/messages.rs: IMessage, its raw form and the check before a     *)
(* send.  An Option is a sequence of at most one value; a String that an   *)
(* operation takes apart is a sequence of its pieces.                      *)

\* calls of sanity_check_send on one message in one run of SpecMessage
MaxSendChecks == 2

None == <<>>
Some(x) == <<x>>

\* A String is the sequence of the bytes of its UTF-8 form.
\* The printable characters of ASCII from the space to the underscore, and
\* from "a" to the tilde.
AsciiLow == " !\"#$%&'()*+,-./0123456789:;<=>?@ABCDEFGHIJKLMNOPQRSTUVWXYZ[\\]^_"
AsciiHigh == "abcdefghijklmnopqrstuvwxyz{|}~"

\* the byte of a character of ASCII
Code(ch) ==
    IF \E i \in 1..Len(AsciiLow) : SubSeq(AsciiLow, i, i) = ch
    THEN 31 + (CHOOSE i \in 1..Len(AsciiLow) : SubSeq(AsciiLow, i, i) = ch)
    ELSE 96 + (CHOOSE i \in 1..Len(AsciiHigh) : SubSeq(AsciiHigh, i, i) = ch)

\* the bytes of the characters of ASCII, by character
CodeTable ==
    [ch \in {SubSeq(AsciiLow, i, i) : i \in 1..Len(AsciiLow)}
            \cup {SubSeq(AsciiHigh, i, i) : i \in 1..Len(AsciiHigh)} |-> Code(ch)]

\* the String of a literal of ASCII characters
Utf8(s) == [i \in 1..Len(s) |-> CodeTable[SubSeq(s, i, i)]]

RECURSIVE Concat(_)
\* the Strings of a sequence, one after the other
Concat(strs) == IF strs = <<>> THEN <<>> ELSE Head(strs) \o Concat(Tail(strs))

\* pat lies in s from position i on, counted from 1
At(s, i, pat) == i + Len(pat) - 1 <= Len(s) /\ SubSeq(s, i, i + Len(pat) - 1) = pat

\* str::contains
contains(s, pat) == \E i \in 1..(Len(s) + 1) : At(s, i, pat)

RECURSIVE ReplaceFrom(_, _, _, _)
\* str::replace from position i on, for a pattern that is not empty: the
\* matches of pat, found from left to right without overlap, are replaced
\* by to
ReplaceFrom(s, i, pat, to) ==
    IF i > Len(s) THEN <<>>
    ELSE IF At(s, i, pat) THEN to \o ReplaceFrom(s, i + Len(pat), pat, to)
    ELSE <<s[i]>> \o ReplaceFrom(s, i + 1, pat, to)

\* str::replace
replace(s, pat, to) == ReplaceFrom(s, 1, pat, to)

RECURSIVE SplitFrom(_, _, _, _)
\* str::split from position i on, with the piece cur begun: the pieces of s
\* between the matches of sep
SplitFrom(s, i, sep, cur) ==
    IF i > Len(s) THEN <<cur>>
    ELSE IF At(s, i, sep) THEN <<cur>> \o SplitFrom(s, i + Len(sep), sep, <<>>)
    ELSE SplitFrom(s, i + 1, sep, Append(cur, s[i]))

\* str::split(..).collect()
split(s, sep) == SplitFrom(s, 1, sep, <<>>)

RECURSIVE join(_, _)
\* [String]::join
join(strs, sep) ==
    IF strs = <<>> THEN <<>>
    ELSE IF Len(strs) = 1 THEN strs[1]
    ELSE strs[1] \o sep \o join(Tail(strs), sep)

RECURSIVE RemTen(_, _)
\* the remainder by ten of the number made of the bytes 8 down to i of w
RemTen(w, i) == IF i > 8 THEN 0 ELSE ((RemTen(w, i + 1) * 256) + w[i]) % 10

\* a u64 divided by ten, by long division from its highest byte down
DivTen(w) == [i \in 1..8 |-> ((RemTen(w, i + 1) * 256) + w[i]) \div 10]

RECURSIVE to_string(_)
\* u64::to_string, usize::to_string: the decimal digits
to_string(w) ==
    IF DivTen(w) = W0 THEN <<48 + RemTen(w, 1)>>
    ELSE to_string(DivTen(w)) \o <<48 + RemTen(w, 1)>>

RECURSIVE CarryTen(_, _, _)
\* the carry into byte i of w times ten plus d
CarryTen(w, d, i) ==
    IF i = 1 THEN d ELSE ((w[i - 1] * 10) + CarryTen(w, d, i - 1)) \div 256

\* w times ten plus the digit d, as checked_mul and checked_add give it
TimesTenPlus(w, d) ==
    [w |-> [i \in 1..8 |-> ((w[i] * 10) + CarryTen(w, d, i)) % 256],
     overflow |-> CarryTen(w, d, 9) # 0]

ParseErr == [ok |-> FALSE, w |-> W0]

RECURSIVE ParseDigits(_, _, _)
\* the digits of s from position i on, added to acc
ParseDigits(s, i, acc) ==
    IF i > Len(s) THEN [ok |-> TRUE, w |-> acc]
    ELSE IF s[i] \notin 48..57 THEN ParseErr
    ELSE LET t == TimesTenPlus(acc, s[i] - 48)
         IN  IF t.overflow THEN ParseErr ELSE ParseDigits(s, i + 1, t.w)

\* str::parse::<u64>, str::parse::<usize>: decimal digits after an optional
\* plus sign, an Err for no digit, another character or a value from 2^64 on
parse(s) ==
    LET digits == IF s # <<>> /\ s[1] = 43 THEN Tail(s) ELSE s
    IN  IF digits = <<>> THEN ParseErr ELSE ParseDigits(digits, 1, W0)

HexDigits == Utf8("0123456789abcdef")

\* util.rs encode_hex: two lowercase digits for each byte
encode_hex(bytes) ==
    Concat([i \in 1..Len(bytes) |->
              <<HexDigits[(bytes[i] \div 16) + 1], HexDigits[(bytes[i] % 16) + 1]>>])

\* str::to_uppercase, on a String of ASCII characters
to_uppercase(s) == [i \in 1..Len(s) |-> IF s[i] \in 97..122 THEN s[i] - 32 ELSE s[i]]

\* the value of a hexadecimal digit, or -1
HexValue(b) ==
    IF b \in 48..57 THEN b - 48
    ELSE IF b \in 65..70 THEN b - 55
    ELSE IF b \in 97..102 THEN b - 87
    ELSE -1

\* u8::from_str_radix(.., 16) on two bytes: two digits, or a plus sign and
\* one digit; -1 for an Err
from_str_radix(a, b) ==
    IF HexValue(b) < 0 THEN -1
    ELSE IF a = 43 THEN HexValue(b)
    ELSE IF HexValue(a) < 0 THEN -1
    ELSE (16 * HexValue(a)) + HexValue(b)

\* str::is_char_boundary at offset k, counted from 0
is_char_boundary(s, k) == k = 0 \/ k = Len(s) \/ (k < Len(s) /\ s[k + 1] \notin 128..191)

\* what decode_hex returns, or the panic that ended it
Decoded(bytes) == [panic |-> "", ok |-> TRUE, bytes |-> bytes]
DecodeErr == [panic |-> "", ok |-> FALSE, bytes |-> <<>>]
DecodePanic(msg) == [panic |-> msg, ok |-> FALSE, bytes |-> <<>>]

RECURSIVE DecodeHexFrom(_, _)
\* util.rs decode_hex from offset i on: the slice &s[i..i + 2] panics past
\* the end of s and inside a character; the first Err ends the collect
DecodeHexFrom(s, i) ==
    IF i >= Len(s) THEN Decoded(<<>>)
    ELSE IF i + 2 > Len(s) THEN DecodePanic("byte index out of bounds")
    ELSE IF ~is_char_boundary(s, i) \/ ~is_char_boundary(s, i + 2)
    THEN DecodePanic("byte index is not a char boundary")
    ELSE LET v == from_str_radix(s[i + 1], s[i + 2])
         IN  IF v < 0 THEN DecodeErr
             ELSE LET rest == DecodeHexFrom(s, i + 2)
                  IN  IF rest.ok THEN Decoded(<<v>> \o rest.bytes) ELSE rest

\* util.rs decode_hex
decode_hex(s) == DecodeHexFrom(s, 0)

Dash == Utf8("-")

\* Uuid::to_string: the hyphenated form, in lowercase
Uuid_to_string(bytes) ==
    encode_hex(SubSeq(bytes, 1, 4)) \o Dash \o encode_hex(SubSeq(bytes, 5, 6)) \o Dash
    \o encode_hex(SubSeq(bytes, 7, 8)) \o Dash \o encode_hex(SubSeq(bytes, 9, 10)) \o Dash
    \o encode_hex(SubSeq(bytes, 11, 16))

\* Uuid::new_v4 on 16 random bytes: version 4, variant RFC 4122
Uuid_new_v4(random) ==
    [i \in 1..16 |-> IF i = 7 THEN 64 + (random[i] % 16)
                     ELSE IF i = 9 THEN 128 + (random[i] % 64)
                     ELSE random[i]]

\* the panics of the unwraps
UnwrapNone == "called Option::unwrap() on a None value"
UnwrapErr == "called Result::unwrap() on an Err value"

\* An IndexedMessagePart is a record [part, idx] of a MessagePart and the
\* Option of its index; a MessagePart is a Text or an Attachment.
Text(text) == [kind |-> "Text", text |-> text]
AttachmentPart(attachment) == [kind |-> "Attachment", attachment |-> attachment]
Indexed(part, idx) == [part |-> part, idx |-> idx]

\* AttachmentType
Inline(data) == [kind |-> "Inline", data |-> data]
MMCS(mmcs) == [kind |-> "MMCS", mmcs |-> mmcs]

\* MessageParts::has_attachments
has_attachments(parts) == \E i \in 1..Len(parts) : parts[i].part.kind = "Attachment"

\* MessageParts::from_raw
MessageParts_from_raw(raw) == <<Indexed(Text(raw), None)>>

\* Attachment::get_size
get_size(attachment) ==
    IF attachment.a_type.kind = "Inline" THEN W(Len(attachment.a_type.data))
    ELSE attachment.a_type.mmcs.size

\* MessageParts::raw_text: the texts of the parts, joined by newlines
raw_text(parts) ==
    LET texts == SelectSeq(parts, LAMBDA p : p.part.kind = "Text")
    IN  join([i \in 1..Len(texts) |-> texts[i].part.text], <<10>>)

\* html_escape::encode_text
encode_text(text) ==
    Concat([i \in 1..Len(text) |->
              IF text[i] = 38 THEN Utf8("&amp;")
              ELSE IF text[i] = 60 THEN Utf8("&lt;")
              ELSE IF text[i] = 62 THEN Utf8("&gt;")
              ELSE <<text[i]>>])

\* an attribute as the writer emits it, its value not escaped
\* (perform_escaping is false)
Attr(name, value) == Utf8(" ") \o Utf8(name) \o Utf8("=\"") \o value \o Utf8("\"")

\* the FILE element of to_xml before the attributes of its type
FileElement(attachment, part_idx) ==
    LET filesize == to_string(get_size(attachment))
    IN  Utf8("<FILE") \o Attr("name", attachment.name) \o Attr("width", Utf8("0"))
        \o Attr("height", Utf8("0")) \o Attr("datasize", filesize)
        \o Attr("mime-type", attachment.mime) \o Attr("uti-type", attachment.uti_type)
        \o Attr("file-size", filesize) \o Attr("message-part", part_idx)

\* one turn of the loop of to_xml, on part i with inline_attachment_num at
\* num: the element written, num and raw after it; an inline attachment
\* after the second is skipped
WritePart(parts, i, num, raw) ==
    LET part_idx == to_string(IF parts[i].idx = None THEN W(i - 1) ELSE parts[i].idx[1])
        part == parts[i].part
    IN  IF part.kind = "Text"
        THEN [xml |-> Utf8("<span") \o Attr("message-part", part_idx) \o Utf8(">")
                      \o encode_text(part.text) \o Utf8("</span>"),
              num |-> num, raw |-> raw]
        ELSE IF part.attachment.a_type.kind = "Inline"
        THEN IF num >= 2 THEN [xml |-> <<>>, num |-> num, raw |-> raw]
             ELSE LET data == part.attachment.a_type.data
                  IN  [xml |-> FileElement(part.attachment, part_idx)
                               \o Attr("inline-attachment",
                                       IF num = 0 THEN Utf8("ia-0") ELSE Utf8("ia-1"))
                               \o Utf8(" />"),
                       num |-> num + 1,
                       raw |-> IF raw = None THEN raw
                               ELSE IF num = 0
                               THEN Some([raw[1] EXCEPT !.inline0 = Some(data)])
                               ELSE Some([raw[1] EXCEPT !.inline1 = Some(data)])]
        ELSE LET mmcs == part.attachment.a_type.mmcs
             IN  [xml |-> FileElement(part.attachment, part_idx)
                          \o Attr("mmcs-signature-hex", encode_hex(mmcs.signature))
                          \o Attr("mmcs-url", mmcs.url)
                          \o Attr("mmcs-owner", mmcs.object)
                          \o Attr("decryption-key", encode_hex(<<0>> \o mmcs.key))
                          \o Utf8(" />"),
                  num |-> num, raw |-> raw]

RECURSIVE WriteParts(_, _, _, _)
\* the loop of to_xml from part i on: the elements written, and raw with the
\* data of the first two inline attachments
WriteParts(parts, i, num, raw) ==
    IF i > Len(parts) THEN [xml |-> <<>>, raw |-> raw]
    ELSE LET one == WritePart(parts, i, num, raw)
             rest == WriteParts(parts, i + 1, one.num, one.raw)
         IN  [rest EXCEPT !.xml = one.xml \o @]

\* MessageParts::to_xml: the document, and raw as the call leaves it.  The
\* writer closes an element that holds nothing as an empty element.
to_xml(parts, raw) ==
    LET written == WriteParts(parts, 1, 0, raw)
    IN  [written EXCEPT !.xml = Utf8("<html>")
                                \o (IF @ = <<>> THEN Utf8("<body />")
                                    ELSE Utf8("<body>") \o @ \o Utf8("</body>"))
                                \o Utf8("</html>")]

\* The EventReader of the xml crate, on the documents of one grammar: one
\* root element and nothing around it; elements with names of ASCII letters,
\* digits, "-", "_" and ".", attributes name="value" divided by white space,
\* no attribute xmlns and none twice; text and values without control
\* characters other than the tab and the newline (text only), "&" in text
\* only as one of the five named references, and none in a value.  A
\* document outside the grammar is Unmodelled: nothing is said about it.
IsNameStart(b) == b \in (65..90) \cup (97..122) \cup {95}
NameChars == (65..90) \cup (97..122) \cup {95} \cup (48..57) \cup {45, 46}
XmlSpaces == {32, 9, 10}

RECURSIVE RunEnd(_, _, _)
\* the position after the longest run of bytes of class from position i on
RunEnd(s, i, class) == IF i <= Len(s) /\ s[i] \in class THEN RunEnd(s, i + 1, class) ELSE i

NameEnd(s, i) == RunEnd(s, i, NameChars)

\* the bytes a value holds in the grammar
ValueBytes == (32..255) \ {34, 38, 60}

\* the named references and the characters they stand for
References == <<[name |-> "&amp;", byte |-> 38], [name |-> "&lt;", byte |-> 60],
                [name |-> "&gt;", byte |-> 62], [name |-> "&quot;", byte |-> 34],
                [name |-> "&apos;", byte |-> 39]>>

\* U+FFFE and U+FFFF are no characters of XML
NonCharacter(s, i) == At(s, i, <<239, 191, 190>>) \/ At(s, i, <<239, 191, 191>>)

NoTag == [ok |-> FALSE, kind |-> "", name |-> <<>>, attributes |-> <<>>, next |-> 0]
Tag(kind, name, attributes, next) ==
    [ok |-> TRUE, kind |-> kind, name |-> name, attributes |-> attributes, next |-> next]

RECURSIVE ReadAttributes(_, _, _, _)
\* the attributes of the tag name from position i on, up to the end of the tag
ReadAttributes(s, i, name, attributes) ==
    LET j == RunEnd(s, i, XmlSpaces) IN
    IF j > Len(s) THEN NoTag
    ELSE IF s[j] = 62 THEN Tag("start", name, attributes, j + 1)
    ELSE IF At(s, j, <<47, 62>>) THEN Tag("empty", name, attributes, j + 2)
    ELSE IF j = i \/ ~IsNameStart(s[j]) THEN NoTag
    ELSE LET e == NameEnd(s, j)
             key == SubSeq(s, j, e - 1)
             close == RunEnd(s, e + 2, ValueBytes)
         IN  IF \/ ~At(s, e, <<61, 34>>)
                \/ close > Len(s) \/ s[close] # 34
                \/ key = Utf8("xmlns")
                \/ \E k \in 1..Len(attributes) : attributes[k].name = key
                \/ \E k \in (e + 2)..(close - 1) : NonCharacter(s, k)
             THEN NoTag
             ELSE ReadAttributes(s, close + 1, name,
                                 Append(attributes,
                                        [name |-> key, value |-> SubSeq(s, e + 2, close - 1)]))

\* the tag that begins with the "<" at position i
ReadTag(s, i) ==
    IF At(s, i, <<60, 47>>)
    THEN LET e == NameEnd(s, i + 2)
             j == RunEnd(s, e, XmlSpaces)
         IN  IF e = i + 2 \/ ~IsNameStart(s[i + 2]) \/ j > Len(s) \/ s[j] # 62 THEN NoTag
             ELSE Tag("end", SubSeq(s, i + 2, e - 1), <<>>, j + 1)
    ELSE LET e == NameEnd(s, i + 1)
         IN  IF e = i + 1 \/ ~IsNameStart(s[i + 1]) THEN NoTag
             ELSE ReadAttributes(s, e, SubSeq(s, i + 1, e - 1), <<>>)

NoText == [ok |-> FALSE, data |-> <<>>, next |-> 0]

RECURSIVE ReadText(_, _, _)
\* the text from position i on up to the next tag, its references resolved
ReadText(s, i, data) ==
    IF i > Len(s) \/ s[i] = 60 THEN [ok |-> TRUE, data |-> data, next |-> i]
    ELSE IF s[i] = 38
    THEN IF \E r \in 1..5 : At(s, i, Utf8(References[r].name))
         THEN LET r == CHOOSE r \in 1..5 : At(s, i, Utf8(References[r].name))
              IN  ReadText(s, i + Len(References[r].name), Append(data, References[r].byte))
         ELSE NoText
    ELSE IF (s[i] < 32 /\ s[i] \notin XmlSpaces) \/ At(s, i, Utf8("]]>")) \/ NonCharacter(s, i)
    THEN NoText
    ELSE ReadText(s, i + 1, Append(data, s[i]))

Unmodelled == [modelled |-> FALSE, events |-> <<>>]

\* the next event of the document at position i, inside the elements open:
\* StartElement, EndElement, Characters, and Whitespace for a text of white
\* space alone
ReadEvent(s, i, open, events) ==
    LET No == [ok |-> FALSE, next |-> i, open |-> open, events |-> events]
    IN  IF s[i] = 60
        THEN LET tag == ReadTag(s, i)
                 start == [type |-> "StartElement", name |-> tag.name,
                           attributes |-> tag.attributes]
                 end == [type |-> "EndElement", name |-> tag.name]
             IN  IF ~tag.ok THEN No
                 ELSE IF tag.kind = "end"
                 THEN IF open = <<>> \/ open[Len(open)] # tag.name THEN No
                      ELSE [ok |-> TRUE, next |-> tag.next,
                            open |-> SubSeq(open, 1, Len(open) - 1),
                            events |-> Append(events, end)]
                 ELSE IF open = <<>> /\ events # <<>> THEN No
                 ELSE IF tag.kind = "empty"
                 THEN [ok |-> TRUE, next |-> tag.next, open |-> open,
                       events |-> events \o <<start, end>>]
                 ELSE [ok |-> TRUE, next |-> tag.next, open |-> Append(open, tag.name),
                       events |-> Append(events, start)]
        ELSE LET text == ReadText(s, i, <<>>)
                 type == IF \A k \in i..(text.next - 1) : s[k] \in XmlSpaces
                         THEN "Whitespace" ELSE "Characters"
             IN  IF open = <<>> \/ ~text.ok THEN No
                 ELSE [ok |-> TRUE, next |-> text.next, open |-> open,
                       events |-> Append(events, [type |-> type, data |-> text.data])]

RECURSIVE ReadXml(_, _, _, _)
\* the events of the document from position i on
ReadXml(s, i, open, events) ==
    IF i > Len(s)
    THEN IF open = <<>> /\ events # <<>> THEN [modelled |-> TRUE, events |-> events]
         ELSE Unmodelled
    ELSE LET read == ReadEvent(s, i, open, events)
         IN  IF ~read.ok THEN Unmodelled
             ELSE ReadXml(s, read.next, read.open, read.events)

\* EventReader::new(Cursor::new(xml)), iterated to its end
EventReader(xml) == ReadXml(xml, 1, <<>>, <<>>)

\* what parse_parts returns, or the panic that ended it; of a document
\* outside the grammar nothing is said
Parts(parts) == [modelled |-> TRUE, panic |-> "", parts |-> parts]
PartsPanic(msg) == [modelled |-> TRUE, panic |-> msg, parts |-> <<>>]
PartsUnmodelled == [modelled |-> FALSE, panic |-> "", parts |-> <<>>]

\* attributes.iter().find(|attr| attr.name.to_string() == name): the Option
\* of the value
find(attributes, name) ==
    IF \E k \in 1..Len(attributes) : attributes[k].name = Utf8(name)
    THEN Some(attributes[CHOOSE k \in 1..Len(attributes) :
                            /\ attributes[k].name = Utf8(name)
                            /\ \A l \in 1..(k - 1) : attributes[l].name # Utf8(name)].value)
    ELSE None

\* the panic of get_attr(name, None) for an attribute that is not there
Missing(attributes, name) ==
    IF find(attributes, name) = None THEN "attribute " \o name \o " doesn't exist!"
    ELSE ""

\* the first panic of a sequence of steps, "" when none panics
FirstPanic(steps) ==
    IF \E k \in 1..Len(steps) : steps[k] # ""
    THEN steps[CHOOSE k \in 1..Len(steps) :
                  steps[k] # "" /\ \A l \in 1..(k - 1) : steps[l] = ""]
    ELSE ""

\* the panic of decode_hex(&get_attr(name, None)).unwrap()
HexPanic(attributes, name) ==
    IF find(attributes, name) = None THEN Missing(attributes, name)
    ELSE LET d == decode_hex(find(attributes, name)[1])
         IN  IF d.panic # "" THEN d.panic ELSE IF ~d.ok THEN UnwrapErr ELSE ""

FileSkipped == [skip |-> TRUE, panic |-> "", attachment |-> <<>>]
FilePanic(msg) == [skip |-> FALSE, panic |-> msg, attachment |-> <<>>]

\* the Attachment parse_parts makes of the attributes of a FILE element:
\* skipped for an inline attachment other than ia-0 and ia-1
ParseFile(attributes, raw) ==
    LET inline == find(attributes, "inline-attachment")
        held == IF inline = Some(Utf8("ia-0")) THEN raw[1].inline0 ELSE raw[1].inline1
        key == decode_hex(find(attributes, "decryption-key")[1]).bytes
        size == parse(find(attributes, "file-size")[1])
        part == find(attributes, "message-part")
        a_panic ==
            IF inline # None
            THEN IF raw # None /\ held = None THEN UnwrapNone ELSE ""
            ELSE FirstPanic(<<HexPanic(attributes, "mmcs-signature-hex"),
                              HexPanic(attributes, "decryption-key"),
                              Missing(attributes, "mmcs-owner"),
                              Missing(attributes, "mmcs-url"),
                              IF find(attributes, "decryption-key") # None /\ key = <<>>
                              THEN "range start index out of range" ELSE "",
                              Missing(attributes, "file-size"),
                              IF find(attributes, "file-size") # None /\ ~size.ok
                              THEN UnwrapErr ELSE "">>)
        panic == FirstPanic(<<a_panic,
                              IF part # None /\ ~parse(part[1]).ok THEN UnwrapErr ELSE "",
                              Missing(attributes, "uti-type"),
                              Missing(attributes, "name")>>)
    IN  IF inline # None /\ inline[1] \notin {Utf8("ia-0"), Utf8("ia-1")} THEN FileSkipped
        ELSE IF panic # "" THEN FilePanic(panic)
        ELSE [skip |-> FALSE, panic |-> "",
              attachment |->
                [a_type |-> IF inline # None
                            THEN Inline(IF raw = None THEN <<>> ELSE held[1])
                            ELSE MMCS([signature |->
                                          decode_hex(find(attributes,
                                                          "mmcs-signature-hex")[1]).bytes,
                                       object |-> find(attributes, "mmcs-owner")[1],
                                       url |-> find(attributes, "mmcs-url")[1],
                                       key |-> Tail(key),
                                       size |-> size.w]),
                 part |-> IF part = None THEN W0 ELSE parse(part[1]).w,
                 uti_type |-> find(attributes, "uti-type")[1],
                 mime |-> IF find(attributes, "mime-type") = None
                          THEN Utf8("application/octet-stream")
                          ELSE find(attributes, "mime-type")[1],
                 name |-> find(attributes, "name")[1],
                 iris |-> find(attributes, "iris") = Some(Utf8("yes"))]]

\* one turn of the loop of parse_parts, on one event: data, string_buf and
\* text_part_idx after it, or the panic
ParseEvent(event, raw, data, string_buf, text_part_idx) ==
    LET Kept(idx) == [panic |-> "", data |-> data, string_buf |-> string_buf,
                      text_part_idx |-> idx]
    IN  IF event.type = "Characters"
        THEN [Kept(text_part_idx) EXCEPT !.string_buf = string_buf \o event.data]
        ELSE IF event.type # "StartElement" THEN Kept(text_part_idx)
        ELSE
        LET attributes == event.attributes
            part == find(attributes, "message-part")
            part_idx == IF part = None THEN None ELSE Some(parse(part[1]).w)
            pushed == Len(trim(string_buf)) > 0
            texts == IF pushed THEN Append(data, Indexed(Text(string_buf), text_part_idx))
                     ELSE data
            file == ParseFile(attributes, raw)
            Flushed(parts) == [panic |-> "", data |-> parts,
                               string_buf |-> IF pushed THEN <<>> ELSE string_buf,
                               text_part_idx |-> IF pushed THEN None ELSE text_part_idx]
        IN  IF part # None /\ ~parse(part[1]).ok
            THEN [Kept(text_part_idx) EXCEPT !.panic = UnwrapErr]
            ELSE IF event.name = Utf8("FILE")
            THEN IF file.skip THEN Flushed(texts)
                 ELSE IF file.panic # ""
                 THEN [Kept(text_part_idx) EXCEPT !.panic = file.panic]
                 ELSE Flushed(Append(texts,
                                     Indexed(AttachmentPart(file.attachment), part_idx)))
            ELSE IF event.name = Utf8("span") THEN Kept(part_idx)
            ELSE Kept(text_part_idx)

RECURSIVE ParseEvents(_, _, _, _)
\* the loop of parse_parts from event i on, turn being what the turns before
\* it left
ParseEvents(events, i, raw, turn) ==
    IF turn.panic # "" THEN PartsPanic(turn.panic)
    ELSE IF i > Len(events)
    THEN Parts(IF Len(trim(turn.string_buf)) > 0
               THEN Append(turn.data, Indexed(Text(turn.string_buf), turn.text_part_idx))
               ELSE turn.data)
    ELSE ParseEvents(events, i + 1, raw,
                     ParseEvent(events[i], raw, turn.data, turn.string_buf,
                                turn.text_part_idx))

\* parse_parts on the events the reader gives
ParseAll(reader, raw) ==
    IF ~reader.modelled THEN PartsUnmodelled
    ELSE ParseEvents(reader.events, 1, raw,
                     [panic |-> "", data |-> <<>>, string_buf |-> <<>>,
                      text_part_idx |-> None])

\* MessageParts::parse_parts
parse_parts(xml, raw) == ParseAll(EventReader(xml), raw)

Reactions == <<"Heart", "Like", "Dislike", "Laugh", "Emphsize", "Question">>

\* ReactMessage::get_idx
get_idx(react) == (CHOOSE i \in 1..6 : Reactions[i] = react.reaction) - 1

\* ReactMessage::from_idx, of a u64
from_idx(idx) ==
    IF IsSmall(idx) /\ Val(idx) <= 5 THEN Some(Reactions[Val(idx) + 1]) ELSE None

\* the quotation marks U+201C and U+201D
LeftQuote == <<226, 128, 156>>
RightQuote == <<226, 128, 157>>

\* ReactMessage::get_text
get_text(react) ==
    LET r == get_idx(react) + 1 IN
    IF react.enable
    THEN Utf8((<<"Loved", "Liked", "Disliked", "Laughed at", "Emphasized",
                 "Questioned">>)[r])
         \o Utf8(" ") \o LeftQuote \o react.to_text \o RightQuote
    ELSE Utf8("Removed a")
         \o Utf8((<<" heart", " like", " dislike", " laugh", "n exclamation",
                    " question mark">>)[r])
         \o Utf8(" from ") \o LeftQuote \o react.to_text \o RightQuote

\* remove_prefix: p.replace("mailto:", "").replace("tel:", ""), for every
\* participant
remove_prefix(participants) ==
    [i \in 1..Len(participants) |->
        replace(replace(participants[i], Utf8("mailto:"), <<>>), Utf8("tel:"), <<>>)]

\* add_prefix
add_prefix(participants) ==
    [i \in 1..Len(participants) |->
        IF contains(participants[i], Utf8("@")) THEN Utf8("mailto:") \o participants[i]
        ELSE Utf8("tel:") \o participants[i]]

\* a has_payload that takes a typing indicator for a message with a body
has_payload_typing(m) == m.message.variant \notin {"Read", "Delivered"}

\* IMessage::has_payload
has_payload(m) == m.message.variant \notin {"Read", "Delivered", "Typing"}

\* what to_raw returns, or the panic that ended it.  The bytes of the body
\* are kept as the record plist_to_bin serialises and the flag of the gzip
\* around it.
RawPanic(msg) == [panic |-> msg, body |-> None]
RawBody(should_gzip, raw) == [panic |-> "", body |-> Some([gzip |-> should_gzip, plist |-> raw])]

\* the RawIMessage to_raw fills in for a message and for the end of typing
RawIMessage(conversation, text, after_guid, effect, reply) ==
    [kind |-> "RawIMessage", text |-> text, xml |-> None,
     participants |-> conversation.participants, after_guid |-> after_guid,
     sender_guid |-> conversation.sender_guid, pv |-> 0, gv |-> Utf8("8"),
     v |-> Utf8("1"), bid |-> None, b |-> None, effect |-> effect,
     cv_name |-> conversation.cv_name, reply |-> reply,
     inline0 |-> None, inline1 |-> None, live_xml |-> None]

\* Into<MMCSTransferData> for MMCSFile
MMCSTransferData(file) ==
    [mmcs_signature_hex |-> to_uppercase(encode_hex(file.signature)),
     mmcs_owner |-> file.object,
     mmcs_url |-> file.url,
     decryption_key |-> encode_hex(<<0>> \o file.key),
     file_size |-> to_string(file.size)]

\* IMessage::to_raw.  now is the Option of the time since the epoch, None
\* for a clock before it, and random the 16 bytes of Uuid::new_v4(); both
\* are drawn for an IconChange alone.  The created_date is kept as the
\* Duration the code divides into an f64 of seconds.
to_raw(m, now, random) ==
    IF m.conversation = None THEN RawPanic(UnwrapNone)
    ELSE
    LET conversation == m.conversation[1]
        msg == m.message
        variant == msg.variant
    IN  CASE variant = "RenameMessage" ->
                RawBody(FALSE,
                    [kind |-> "RawRenameMessage",
                     participants |-> remove_prefix(conversation.participants),
                     sender_guid |-> conversation.sender_guid, gv |-> Utf8("8"),
                     new_name |-> msg.new_name, old_name |-> conversation.cv_name,
                     name |-> msg.new_name, msg_type |-> Utf8("n")])
          [] variant = "StopTyping" ->
                RawBody(FALSE, RawIMessage(conversation, None, None, None, None))
          [] variant = "ChangeParticipants" ->
                IF conversation.cv_name = None THEN RawPanic(UnwrapNone)
                ELSE RawBody(FALSE,
                        [kind |-> "RawChangeMessage",
                         target_participants |-> remove_prefix(msg.new_participants),
                         source_participants |-> remove_prefix(conversation.participants),
                         sender_guid |-> conversation.sender_guid, gv |-> Utf8("8"),
                         new_name |-> conversation.cv_name[1],
                         name |-> conversation.cv_name[1],
                         msg_type |-> Utf8("p"), group_version |-> msg.group_version])
          [] variant = "React" ->
                LET amt == IF msg.enable THEN get_idx(msg) + 2000 ELSE get_idx(msg) + 3000
                IN  RawBody(FALSE,
                        [kind |-> "RawReactMessage", text |-> get_text(msg),
                         amrln |-> W(Len(msg.to_text)), amrlc |-> 0, amt |-> W(amt),
                         participants |-> conversation.participants,
                         after_guid |-> m.after_guid,
                         sender_guid |-> conversation.sender_guid,
                         pv |-> 0, gv |-> Utf8("8"), v |-> Utf8("1"),
                         cv_name |-> conversation.cv_name,
                         msi |-> [kind |-> "MsiData", ams |-> Utf8("test"), amc |-> 1],
                         amk |-> Utf8("p:") \o to_string(msg.to_part) \o Utf8("/")
                                 \o msg.to_uuid])
          [] variant = "Message" ->
                IF msg.reply_guid # None /\ msg.reply_part = None THEN RawPanic(UnwrapNone)
                ELSE LET reply == IF msg.reply_guid = None THEN None
                                  ELSE Some(Utf8("r:") \o msg.reply_part[1] \o Utf8(":")
                                            \o msg.reply_guid[1])
                         raw == RawIMessage(conversation, Some(raw_text(msg.parts)),
                                            m.after_guid, msg.effect, reply)
                         written == to_xml(msg.parts, Some(raw))
                     IN  IF has_attachments(msg.parts)
                         THEN RawBody(FALSE, [written.raw[1] EXCEPT !.xml = Some(written.xml)])
                         ELSE RawBody(TRUE, raw)
          [] variant \in {"Delivered", "Read", "Typing"} -> RawPanic("no enc body!")
          [] variant = "Unsend" ->
                RawBody(FALSE,
                    [kind |-> "RawUnsendMessage", rs |-> TRUE, message |-> msg.tuuid,
                     et |-> 2, part_index |-> msg.edit_part, v |-> Utf8("1")])
          [] variant = "Edit" ->
                RawBody(FALSE,
                    [kind |-> "RawEditMessage",
                     new_html_body |-> to_xml(msg.new_parts, None).xml,
                     et |-> 1, part_index |-> msg.edit_part, message |-> msg.tuuid,
                     new_text |-> raw_text(msg.new_parts)])
          [] variant = "IconChange" ->
                IF now = None THEN RawPanic("Time went backwards")
                ELSE LET random_guid == to_uppercase(Uuid_to_string(Uuid_new_v4(random)))
                     IN  RawBody(FALSE,
                            [kind |-> "RawIconChangeMessage",
                             group_version |-> msg.group_version,
                             new_icon |->
                                IF msg.file = None THEN None
                                ELSE Some([created_date |-> now[1],
                                           filename_key |-> Utf8("GroupPhotoImage"),
                                           local_user_info |-> MMCSTransferData(msg.file[1]),
                                           transfer_guid |-> Utf8("at_0_") \o random_guid,
                                           message_guid |-> random_guid]),
                             sender_guid |-> conversation.sender_guid,
                             msg_type |-> Utf8("v"),
                             participants |-> remove_prefix(conversation.participants),
                             gv |-> Utf8("8"), cv_name |-> conversation.cv_name])

\* the classes of the pattern p:([0-9]+)/([0-9A-F\-]+)
Digits == 48..57
UuidClass == (48..57) \cup (65..70) \cup {45}

\* the pattern matches amk from position i on
MatchAt(amk, i) ==
    /\ At(amk, i, Utf8("p:"))
    /\ LET d == RunEnd(amk, i + 2, Digits)
       IN  d > i + 2 /\ d <= Len(amk) /\ amk[d] = 47 /\ RunEnd(amk, d + 1, UuidClass) > d + 1

\* Regex::captures: the Option of the groups 1 and 2 of the leftmost match,
\* each group as long as it can be
captures(amk) ==
    IF \E i \in 1..Len(amk) : MatchAt(amk, i)
    THEN LET i == CHOOSE i \in 1..Len(amk) :
                      MatchAt(amk, i) /\ \A k \in 1..(i - 1) : ~MatchAt(amk, k)
             d == RunEnd(amk, i + 2, Digits)
         IN  Some(<<SubSeq(amk, i + 2, d - 1),
                    SubSeq(amk, d + 1, RunEnd(amk, d + 1, UuidClass) - 1)>>)
    ELSE None

\* what from_raw returns, or the panic that ended it; of a body with a
\* document outside the grammar of the reader nothing is said
Parsed(m) == [done |-> TRUE, modelled |-> TRUE, panic |-> "", message |-> m]
ParsePanic(msg) == [done |-> TRUE, modelled |-> TRUE, panic |-> msg, message |-> None]
ParseUnmodelled == [done |-> TRUE, modelled |-> FALSE, panic |-> "", message |-> None]
NotParsed == [done |-> FALSE, modelled |-> TRUE, panic |-> "", message |-> None]

\* the IMessage from_raw returns for a wrapper with a msg_guid of 16 bytes
Received(wrapper, after_guid, conversation, message) ==
    Parsed(Some([id |-> to_uppercase(Uuid_to_string(wrapper.msg_guid)),
                 sender |-> Some(wrapper.sender),
                 after_guid |-> after_guid,
                 conversation |-> conversation,
                 message |-> message,
                 sent_timestamp |-> wrapper.sent_timestamp \div 1000000]))

\* From<MMCSTransferData> for MMCSFile: the panic of its unwraps and of the
\* slice of the key
TransferPanic(value) ==
    LET sig == decode_hex(value.mmcs_signature_hex)
        key == decode_hex(value.decryption_key)
    IN  FirstPanic(<<IF sig.panic # "" THEN sig.panic ELSE IF ~sig.ok THEN UnwrapErr ELSE "",
                     IF key.panic # "" THEN key.panic
                     ELSE IF ~key.ok THEN UnwrapErr
                     ELSE IF key.bytes = <<>> THEN "range start index out of range"
                     ELSE "",
                     IF ~parse(value.file_size).ok THEN UnwrapErr ELSE "">>)

\* From<MMCSTransferData> for MMCSFile
MMCSFile_from(value) ==
    [signature |-> decode_hex(value.mmcs_signature_hex).bytes,
     object |-> value.mmcs_owner,
     url |-> value.mmcs_url,
     key |-> Tail(decode_hex(value.decryption_key).bytes),
     size |-> parse(value.file_size).w]

\* the reply of a RawIMessage taken apart: the guid is the first piece
\* after "r" that holds a "-", the part the other pieces
Replies(to) ==
    LET parts == Tail(split(to, Utf8(":")))
        dashed(k) == contains(parts[k], Dash)
        guididx == CHOOSE k \in 1..Len(parts) : dashed(k) /\ \A l \in 1..(k - 1) : ~dashed(l)
    IN  IF \A k \in 1..Len(parts) : ~dashed(k)
        THEN [panic |-> UnwrapNone, guid |-> <<>>, part |-> <<>>]
        ELSE [panic |-> "", guid |-> parts[guididx],
              part |-> join(SubSeq(parts, 1, guididx - 1)
                            \o SubSeq(parts, guididx + 1, Len(parts)), Utf8(":"))]

\* IMessage::from_raw on bytes that load as a RawReactMessage
from_raw_react(loaded, wrapper) ==
    LET target_msg_data == captures(loaded.amk)
        enabled == LtW(loaded.amt, W(3000))
        id == SubW(loaded.amt, IF enabled THEN W(2000) ELSE W(3000))
        to_part == parse(target_msg_data[1][1])
        reaction == from_idx(id.w)
    IN  IF target_msg_data = None THEN ParsePanic(UnwrapNone)
        ELSE IF overflow_checks /\ id.overflow
        THEN ParsePanic("attempt to subtract with overflow")
        ELSE IF Len(wrapper.msg_guid) # 16 THEN ParsePanic(UnwrapErr)
        ELSE IF ~to_part.ok THEN ParsePanic(UnwrapErr)
        ELSE IF reaction = None THEN Parsed(None)
        ELSE Received(wrapper, loaded.after_guid,
                      Some([participants |-> loaded.participants,
                            cv_name |-> loaded.cv_name,
                            sender_guid |-> loaded.sender_guid]),
                      [variant |-> "React", to_uuid |-> target_msg_data[1][2],
                       to_part |-> to_part.w, to_text |-> <<>>,
                       enable |-> enabled, reaction |-> reaction[1]])

\* the message of a RawIMessage, with its reply taken apart and its parts
\* parsed
Texted(loaded, wrapper, replies, parts) ==
    IF replies # None /\ replies[1].panic # "" THEN ParsePanic(replies[1].panic)
    ELSE IF ~parts.modelled THEN ParseUnmodelled
    ELSE IF parts.panic # "" THEN ParsePanic(parts.panic)
    ELSE IF Len(wrapper.msg_guid) # 16 THEN ParsePanic(UnwrapErr)
    ELSE Received(wrapper, loaded.after_guid,
                  Some([participants |-> loaded.participants,
                        cv_name |-> loaded.cv_name,
                        sender_guid |-> loaded.sender_guid]),
                  [variant |-> "Message", parts |-> parts.parts,
                   body |-> IF loaded.b # None /\ loaded.bid # None
                            THEN Some([bid |-> loaded.bid[1], data |-> loaded.b[1]])
                            ELSE None,
                   effect |-> loaded.effect,
                   reply_guid |-> IF replies = None THEN None ELSE Some(replies[1].guid),
                   reply_part |-> IF replies = None THEN None ELSE Some(replies[1].part)])

\* IMessage::from_raw on bytes that load as a RawIMessage
from_raw_message(loaded, wrapper) ==
    Texted(loaded, wrapper,
           IF loaded.reply = None THEN None ELSE Some(Replies(loaded.reply[1])),
           IF loaded.live_xml # None \/ loaded.xml # None
           THEN parse_parts((IF loaded.live_xml # None THEN loaded.live_xml
                             ELSE loaded.xml)[1], Some(loaded))
           ELSE IF loaded.text # None THEN Parts(MessageParts_from_raw(loaded.text[1]))
           ELSE Parts(<<>>))

\* IMessage::from_raw on bytes that load as a RawEditMessage, with the parts
\* of its new_html_body parsed
Edited(loaded, wrapper, new_parts) ==
    IF Len(wrapper.msg_guid) # 16 THEN ParsePanic(UnwrapErr)
    ELSE IF ~new_parts.modelled THEN ParseUnmodelled
    ELSE IF new_parts.panic # "" THEN ParsePanic(new_parts.panic)
    ELSE Received(wrapper, None, None,
                  [variant |-> "Edit", tuuid |-> loaded.message,
                   edit_part |-> loaded.part_index,
                   new_parts |-> new_parts.parts])

\* IMessage::from_raw.  The bytes are the body without its gzip; the type
\* they load as is the kind of the record, the first type of the seven that
\* takes them.
from_raw(body, wrapper) ==
    LET loaded == body.plist
        kind == loaded.kind
        short == Len(wrapper.msg_guid) # 16
    IN  CASE kind = "RawUnsendMessage" ->
                IF short THEN ParsePanic(UnwrapErr)
                ELSE Received(wrapper, None, None,
                              [variant |-> "Unsend", tuuid |-> loaded.message,
                               edit_part |-> loaded.part_index])
          [] kind = "RawEditMessage" ->
                Edited(loaded, wrapper, parse_parts(loaded.new_html_body, None))
          [] kind = "RawChangeMessage" ->
                IF short THEN ParsePanic(UnwrapErr)
                ELSE Received(wrapper, None,
                              Some([participants |-> add_prefix(loaded.source_participants),
                                    cv_name |-> Some(loaded.name),
                                    sender_guid |-> loaded.sender_guid]),
                              [variant |-> "ChangeParticipants",
                               new_participants |-> add_prefix(loaded.target_participants),
                               group_version |-> loaded.group_version])
          [] kind = "RawIconChangeMessage" ->
                IF short THEN ParsePanic(UnwrapErr)
                ELSE IF loaded.new_icon # None
                        /\ TransferPanic(loaded.new_icon[1].local_user_info) # ""
                THEN ParsePanic(TransferPanic(loaded.new_icon[1].local_user_info))
                ELSE Received(wrapper, None,
                              Some([participants |-> add_prefix(loaded.participants),
                                    cv_name |-> loaded.cv_name,
                                    sender_guid |-> loaded.sender_guid]),
                              [variant |-> "IconChange",
                               file |-> IF loaded.new_icon = None THEN None
                                        ELSE Some(MMCSFile_from(
                                                    loaded.new_icon[1].local_user_info)),
                               group_version |-> loaded.group_version])
          [] kind = "RawRenameMessage" ->
                IF short THEN ParsePanic(UnwrapErr)
                ELSE Received(wrapper, None,
                              Some([participants |-> add_prefix(loaded.participants),
                                    cv_name |-> loaded.old_name,
                                    sender_guid |-> loaded.sender_guid]),
                              [variant |-> "RenameMessage", new_name |-> loaded.new_name])
          [] kind = "RawReactMessage" -> from_raw_react(loaded, wrapper)
          [] kind = "RawIMessage" -> from_raw_message(loaded, wrapper)
          [] OTHER -> Parsed(None)

\* what sanity_check_send leaves, or the panic that ended it
Checked(m) == [panic |-> "", m |-> m]
CheckPanic(m, msg) == [panic |-> msg, m |-> m]

\* a sanity_check_send that pushes the sender without looking for it
sanity_check_send_push(m, fresh) ==
    IF m.conversation = None THEN CheckPanic(m, "no convo for send!??!?")
    ELSE LET conversation == m.conversation[1]
             named == IF conversation.sender_guid = None
                      THEN [conversation EXCEPT !.sender_guid = Some(fresh)]
                      ELSE conversation
         IN  IF m.sender = None
             THEN CheckPanic([m EXCEPT !.conversation = Some(named)], UnwrapNone)
             ELSE Checked([m EXCEPT !.conversation =
                            Some([named EXCEPT !.participants = Append(@, m.sender[1])])])

\* IMessage::sanity_check_send; fresh is the string of Uuid::new_v4()
sanity_check_send(m, fresh) ==
    IF m.conversation = None THEN CheckPanic(m, "no convo for send!??!?")
    ELSE LET conversation == m.conversation[1]
             named == IF conversation.sender_guid = None
                      THEN [conversation EXCEPT !.sender_guid = Some(fresh)]
                      ELSE conversation
         IN  IF m.sender = None
             THEN CheckPanic([m EXCEPT !.conversation = Some(named)], UnwrapNone)
             ELSE IF \E i \in 1..Len(named.participants) :
                        named.participants[i] = m.sender[1]
             THEN Checked([m EXCEPT !.conversation = Some(named)])
             ELSE Checked([m EXCEPT !.conversation =
                            Some([named EXCEPT !.participants = Append(@, m.sender[1])])])

\* the participants of the runs; the third holds a prefix only once another
\* is taken out of it
Alice == Utf8("tel:+15550100")
Bob == Utf8("mailto:bob@example.com")
Nested == Utf8("temailto:l:5")

\* the attachments and the parts of the runs
StoredFile ==
    [signature |-> <<1, 171>>, object |-> Utf8("owner"),
     url |-> Utf8("https://example.com/a"), key |-> <<7, 8>>, size |-> W(3)]
FileOf(a_type) ==
    [a_type |-> a_type, part |-> W0, uti_type |-> Utf8("public.data"),
     mime |-> Utf8("application/octet-stream"), name |-> Utf8("f"), iris |-> FALSE]
InlinePart == Indexed(AttachmentPart(FileOf(Inline(<<1, 2, 3>>))), None)
SomeParts ==
    {<<Indexed(Text(Utf8("hi")), None)>>,
     <<Indexed(Text(Utf8("hi")), Some(W(7))), InlinePart,
       Indexed(Text(Utf8("a<b")), None)>>,
     <<InlinePart, InlinePart, InlinePart>>,
     <<Indexed(AttachmentPart(FileOf(MMCS(StoredFile))), Some(W(2))),
       Indexed(Text(Utf8("yo")), None)>>}

\* the messages of the runs
Messages ==
    {[variant |-> v] : v \in {"Delivered", "Read", "Typing", "StopTyping"}}
    \cup {[variant |-> "Message", parts |-> ps, body |-> None, effect |-> None,
           reply_guid |-> r[1], reply_part |-> r[2]] :
             ps \in SomeParts,
             r \in {<<None, None>>, <<Some(Utf8("A-1")), Some(Utf8("0"))>>,
                    <<Some(Utf8("A-1")), None>>}}
    \cup {[variant |-> "RenameMessage", new_name |-> Utf8("club")]}
    \cup {[variant |-> "ChangeParticipants", new_participants |-> <<Alice, Bob>>,
           group_version |-> 1]}
    \cup {[variant |-> "React", to_uuid |-> u, to_part |-> W(3), enable |-> e,
           reaction |-> Reactions[i], to_text |-> Utf8("hi")] :
             u \in {Utf8("A1-B")}, e \in BOOLEAN, i \in 1..6}
    \cup {[variant |-> "React", to_uuid |-> u, to_part |-> W(3), enable |-> TRUE,
           reaction |-> Reactions[1], to_text |-> Utf8("hi")] :
             u \in {Utf8("xp:1/B"), Utf8("ab")}}
    \cup {[variant |-> "Unsend", tuuid |-> Utf8("A-1"), edit_part |-> 0]}
    \cup {[variant |-> "Edit", tuuid |-> Utf8("A-1"), edit_part |-> 0, new_parts |-> ps] :
             ps \in SomeParts}
    \cup {[variant |-> "IconChange", file |-> f, group_version |-> 1] :
             f \in {None, Some(StoredFile)}}

Conversations ==
    {None} \cup
    {Some([participants |-> ps, cv_name |-> n, sender_guid |-> g]) :
        ps \in {<<>>, <<Alice>>, <<Bob, Alice>>, <<Nested>>},
        n \in {None, Some(Utf8("club"))},
        g \in {None, Some(Utf8("G-0"))}}

\* the wrappers a received message comes in: a msg_guid of 16 bytes, and
\* one of two
Wrappers ==
    {[sender |-> Bob, msg_guid |-> g, sent_timestamp |-> 5000000] :
        g \in {[i \in 1..16 |-> i], <<1, 2>>}}

\* the amt of a received reaction: around the two ranges of codes, and far
\* from them
Amts == {W(n) : n \in {0, 1999, 2000, 2003, 2005, 2006, 2999, 3000, 3005, 3006}}
            \cup {MaxW}

\* the amk of a received reaction
Amks == {Utf8("p:0/A1-B"), Utf8("p:0/Ab"), Utf8("p:0/a"), Utf8("p:0/xp:1/B"),
         Utf8("p:007/A-1"), Utf8("p:99999999999999999999999/A")}

\* the draws of Uuid::new_v4 and the times of the clock: a whole number of
\* seconds since the epoch, or a clock before it
RandomGuids == {[i \in 1..16 |-> 255], [i \in 1..16 |-> 15 * i]}
Clock == {None, Some([secs |-> 1700000000, nanos |-> 0])}

Outgoing(m) ==
    [made |-> TRUE, msg |-> Some(m), checks |-> 0, raw |-> RawBody(FALSE, None),
     sent |-> FALSE, wrapper |-> None, parsed |-> NotParsed, panic |-> ""]
Incoming(body, wrapper) ==
    [made |-> TRUE, msg |-> None, checks |-> 0, raw |-> body,
     sent |-> TRUE, wrapper |-> Some(wrapper), parsed |-> NotParsed, panic |-> ""]

InitMessage ==
    /\ JellyIs(Jelly_new(<<>>)) /\ RunInit /\ LoaderIdle /\ DriverIdle /\ Alone
    /\ \/ \E message \in Messages, conversation \in Conversations,
             sender \in {None, Some(Alice), Some(Bob)} :
            im = Outgoing([id |-> <<>>, sender |-> sender,
                           after_guid |-> None, conversation |-> conversation,
                           message |-> message, sent_timestamp |-> 0])
       \/ \E amt \in Amts, gz \in BOOLEAN, wrapper \in Wrappers, amk \in Amks :
            im = Incoming(
                    RawBody(gz, [kind |-> "RawReactMessage", text |-> <<>>,
                                 amrln |-> W0, amrlc |-> 0, amt |-> amt,
                                 participants |-> <<Alice, Bob>>, after_guid |-> None,
                                 sender_guid |-> None, pv |-> 0, gv |-> Utf8("8"),
                                 v |-> Utf8("1"), cv_name |-> None,
                                 msi |-> [kind |-> "MsiData", ams |-> Utf8("test"),
                                          amc |-> 1],
                                 amk |-> amk]),
                    wrapper)

Live == im.made /\ im.panic = ""

\* sanity_check_send on the message, before it is sent
SanityCheckSend ==
    /\ Live /\ im.msg # None /\ ~im.sent /\ im.checks < MaxSendChecks
    /\ \E random \in RandomGuids :
          LET r == sanity_check_send(im.msg[1], Uuid_to_string(Uuid_new_v4(random)))
          IN  im' = [im EXCEPT !.msg = Some(r.m), !.checks = @ + 1, !.panic = r.panic]
    /\ message_unchanged

\* to_raw on the message: the body that is sent, in a wrapper
ToRaw ==
    /\ Live /\ im.msg # None /\ ~im.sent
    /\ \E now \in Clock, random \in RandomGuids, wrapper \in Wrappers :
          LET r == to_raw(im.msg[1], now, random)
          IN  im' = [im EXCEPT !.raw = r, !.sent = TRUE, !.panic = r.panic,
                               !.wrapper = Some(wrapper)]
    /\ message_unchanged

\* from_raw on a body: ungzip, or the bytes as they are, then the branch of
\* the type they load as
FromRaw ==
    /\ Live /\ im.sent /\ ~im.parsed.done
    /\ im.raw.body # None
    /\ \E r \in {from_raw(im.raw.body[1], im.wrapper[1])} :
          r.modelled /\ im' = [im EXCEPT !.parsed = r, !.panic = r.panic]
    /\ message_unchanged

NextMessage ==
    \/ SanityCheckSend
    \/ ToRaw
    \/ FromRaw

SpecMessage == InitMessage /\ [][NextMessage]_vars

---------------------------------------------------------------------------
(* Properties of the handle table.                                         *)

Range(f) == {f[i] : i \in DOMAIN f}

InterningHooks ==
    {"_CFDictionaryCreateMutable", "_DADiskCopyDescription", "_IOServiceMatching",
     "_IORegistryEntryCreateCFProperty", "_CFDictionaryGetValue"}

\* C1: handle monotonicity.  The handles returned by the interning hooks of
\* one run are 1, 2, ..., N in call order, every object of the table was
\* issued that way, and an interning hook that returns (other than the
\* registry query answering 0, not found) has appended one object and
\* returned the new length of the table.
C1_HandleMonotonicity ==
    /\ issued = [i \in 1..Len(issued) |-> W(i)]
    /\ Len(issued) = Len(cf_objects)
    /\ (/\ last.ok
        /\ last.name \in InterningHooks
        /\ ~(last.name = "_IORegistryEntryCreateCFProperty" /\ last.ret = W0))
       => (Len(cf_objects) = Len(pre_cf) + 1 /\ last.ret = W(Len(cf_objects)))

\* four interning calls of two kinds have returned in one run
C1_Witness ==
    /\ Len(issued) = 4
    /\ last.ok /\ last.name = "_CFDictionaryGetValue"
    /\ "_DADiskCopyDescription" \in Range(hist)

\* C2: the handle table is append-only.  No step shortens it, an object that
\* is no dictionary never changes, and a dictionary stays a dictionary and
\* loses no key: every handle keeps resolving to an object of the same tag.
C2_AppendOnly ==
    [][/\ Len(cf_objects') >= Len(cf_objects)
       /\ \A i \in 1..Len(cf_objects) :
            /\ cf_objects'[i].tag = cf_objects[i].tag
            /\ cf_objects[i].tag # "Dictionary" => cf_objects'[i] = cf_objects[i]
            /\ DOMAIN cf_objects[i].dict \subseteq DOMAIN cf_objects'[i].dict]_vars

\* a release hook has run on a table that holds a dictionary changed by
\* _CFDictionarySetValue
C2_Witness ==
    /\ last.ok /\ last.name \in {"_CFRelease", "_IOObjectRelease", "_free"}
    /\ Len(cf_objects) >= 2
    /\ "_CFDictionarySetValue" \in Range(hist)

\* C3: dictionary round trip.  When _CFDictionaryGetValue(d, k) directly
\* follows _CFDictionarySetValue(d, k, v), it returns a handle that resolves to
\* the value the set stored, the object handle v had when the set was invoked;
\* unless v is d itself, that is also the object at handle v after the get.
C3_RoundTrip ==
    [][(/\ last.name = "_CFDictionarySetValue" /\ last.ok
        /\ Len(hist') = Len(hist) + 1
        /\ last'.name = "_CFDictionaryGetValue" /\ last'.ok
        /\ last'.args = <<last.args[1], last.args[2]>>)
       => LET h == HandleIndex(cf_objects', last'.ret)
              v == Val(last.args[3])
          IN  /\ h # 0
              /\ cf_objects'[h] = pre_cf[v]
              /\ last.args[3] # last.args[1] => cf_objects'[h] = cf_objects'[v]]_vars

\* a get directly after a set has returned a dictionary the set stored
C3_Witness ==
    /\ Len(hist) >= 2
    /\ hist[Len(hist) - 1] = "_CFDictionarySetValue"
    /\ last.name = "_CFDictionaryGetValue" /\ last.ok
    /\ last.args[2] # SentinelKey
    /\ cf_objects[Len(cf_objects)].tag = "Dictionary"

\* C6: the sentinel key.  Whatever the dictionary handle, looking up the
\* sentinel key 0xc3c3c3c3c3c3c3c3 gives what looking up a handle of the
\* string "DADiskDescriptionVolumeUUIDKey" gives: the same value or the same
\* panic (and so, the push being the same, the same handle).
C6_SentinelKey ==
    \A kh \in Handles :
        LET k == HandleIndex(cf_objects, kh) IN
        (k # 0 /\ cf_objects[k] = CfString(VolumeUUIDKey))
        => \A dh \in Handles \cup {MaxW} :
              dictionary_get_value(cf_objects, dh, SentinelKey)
                  = dictionary_get_value(cf_objects, dh, kh)

\* the sentinel key has been looked up in a table that holds the key's text
\* as a string object and a dictionary with an entry under it
C6_Witness ==
    /\ last.name = "_CFDictionaryGetValue" /\ last.ok
    /\ last.args[2] = SentinelKey
    /\ \E k \in 1..Len(pre_cf) : pre_cf[k] = CfString(VolumeUUIDKey)
    /\ cf_objects[Len(cf_objects)] = CfString(RootDiskUuid)

---------------------------------------------------------------------------
(* Properties of the iterator flag.                                        *)

\* after the calls of h, a get-matching-services has not been consumed yet
Armed(h) ==
    \E i \in 1..Len(h) :
        /\ h[i] = "_IOServiceGetMatchingServices"
        /\ \A j \in (i + 1)..Len(h) : h[j] # "_IOIteratorNext"

\* C4: iterator simulation.  _IOIteratorNext returns 94 when
\* _IOServiceGetMatchingServices has been invoked and no _IOIteratorNext has
\* run since, and 0 otherwise: after a get-matching-services the sentinel is
\* yielded exactly once, then 0 on every later call until the next
\* get-matching-services.  The flag is set exactly in between.
C4_IteratorSimulation ==
    /\ pc = "ready" => (eth_iterator_hack <=> Armed(hist))
    /\ (last.name = "_IOIteratorNext" /\ last.ok)
       => last.ret = (IF Armed(SubSeq(hist, 1, Len(hist) - 1)) THEN W(94) ELSE W(0))

\* the sentinel has been yielded once and 0 twice, then after another
\* get-matching-services once again
C4_Witness ==
    /\ hist = <<"_IOServiceGetMatchingServices", "_IOIteratorNext", "_IOIteratorNext",
                "_IOIteratorNext", "_IOServiceGetMatchingServices", "_IOIteratorNext">>
    /\ last.ok /\ last.ret = W(94)

---------------------------------------------------------------------------
(* Properties of the string copy.                                          *)

\* C5: truncation.  _CFStringGetCString(string, buf, buf_len, _) with buf_len
\* smaller than the byte length of the string returns buf_len, leaves the
\* first buf_len bytes of the string at buf .. buf + buf_len - 1, and changes
\* no other byte of memory, none at or beyond buf + buf_len in particular.
C5_Truncation ==
    [][(/\ Len(hist') = Len(hist) + 1
        /\ last'.name = "_CFStringGetCString" /\ last'.ok
        /\ LtW(last'.args[3], W(Len(cf_objects[Val(last'.args[1])].bytes))))
       => LET string == cf_objects[Val(last'.args[1])].bytes
              buf == Val(last'.args[2])
              buf_len == Val(last'.args[3])
              written == buf..(buf + buf_len - 1)
          IN  /\ last'.ret = last'.args[3]
              /\ \A a \in written : ByteAt(mem', a) = string[a - buf + 1]
              /\ \A a \in ((DOMAIN mem) \cup (DOMAIN mem')) \ written :
                    ByteAt(mem', a) = ByteAt(mem, a)
              /\ \A a \in (buf + buf_len)..(buf + Len(string)) :
                    ByteAt(mem', a) = ByteAt(mem, a)]_vars

\* a string of four bytes has been copied into a buffer of two
C5_Witness ==
    /\ last.name = "_CFStringGetCString" /\ last.ok
    /\ last.args[3] = W(2) /\ last.ret = W(2)
    /\ Len(cf_objects[Val(last.args[1])].bytes) = 4
    /\ mem_read(mem, last.args[2], 2) = SubSeq(cf_objects[Val(last.args[1])].bytes, 1, 2)

---------------------------------------------------------------------------
(* Properties of the heap cursor.                                          *)

RECURSIVE SumW(_, _)
\* the sum of the words of ws added to start, and whether it left 64 bits
SumW(start, ws) ==
    IF Len(ws) = 0 THEN [w |-> start, overflow |-> FALSE]
    ELSE LET rest == SumW(start, SubSeq(ws, 1, Len(ws) - 1))
             s == AddW(rest.w, ws[Len(ws)])
         IN  [w |-> s.w, overflow |-> rest.overflow \/ s.overflow]

Sizes(as) == [i \in 1..Len(as) |-> as[i].size]

\* the sizes asked of _malloc so far, the one of a failed last call included
Requested ==
    IF last.name = "_malloc" /\ ~last.ok /\ Len(last.args) = 1
    THEN Append(Sizes(allocs), last.args[1])
    ELSE Sizes(allocs)

\* the ranges [addr, addr + size) of x and y, taken in the integers, meet
Overlap(x, y) ==
    LET before_end(a, b) ==
            LET e == AddW(b.addr, b.size) IN e.overflow \/ LtW(a.addr, e.w)
    IN  /\ x.size # W0 /\ y.size # W0
        /\ before_end(x, y) /\ before_end(y, x)

\* C7 as stated: _malloc with one argument returns for any 64-bit size, with
\* the heap base plus the sizes allocated before, and two allocations of one
\* run never overlap.
C7_NeverFails ==
    /\ (last.name = "_malloc" /\ Len(last.args) = 1) => last.ok
    /\ \A i \in 1..Len(allocs) :
          allocs[i].addr = SumW(W(HEAP_BASE), SubSeq(Sizes(allocs), 1, i - 1)).w
    /\ \A i, j \in 1..Len(allocs) : i # j => ~Overlap(allocs[i], allocs[j])

\* C7, amended: as long as the heap base plus all the sizes requested in the
\* run, the current one included, stays below 2^64, _malloc returns, with the
\* heap base plus the sizes allocated before, heap_size is the sum of the
\* sizes, and two allocations never overlap.
C7_BoundedUsage ==
    /\ ~SumW(W(HEAP_BASE), Requested).overflow
       => /\ (last.name = "_malloc" /\ Len(last.args) = 1) => last.ok
          /\ heap_size = SumW(W0, Sizes(allocs)).w
          /\ \A i, j \in 1..Len(allocs) : i # j => ~Overlap(allocs[i], allocs[j])
    /\ \A i \in 1..Len(allocs) :
          ~SumW(W(HEAP_BASE), SubSeq(Sizes(allocs), 1, i)).overflow
          => allocs[i].addr = SumW(W(HEAP_BASE), SubSeq(Sizes(allocs), 1, i - 1)).w

\* three allocations of 8, 24 and 8 bytes lie one after the other
C7_Witness ==
    /\ Sizes(allocs) = <<W(8), W(24), W(8)>>
    /\ last.name = "_malloc" /\ last.ok /\ last.ret = W(HEAP_BASE + 32)
    /\ heap_size = W(40)

---------------------------------------------------------------------------
(* Properties of the hook interface.                                       *)

\* C10: hook arity.  Every hook reports as its argument count the number of
\* parameters it declares; a hook invoked with another number of words
\* panics with "invalid number of arguments" and leaves the handle table, the
\* heap cursor, the iterator flag and the memory as they were; a hook invoked
\* with the declared number never panics with that message.
C10_HookArity ==
    [][/\ \A n \in HookNames : HookArgs(n) = Len(HookParams[n])
       /\ Len(hist') = Len(hist) + 1
          => IF Len(last'.args) # HookArgs(last'.name)
             THEN /\ ~last'.ok
                  /\ pc' = "panic"
                  /\ panic_msg' = "invalid number of arguments"
                  /\ UNCHANGED <<cf_objects, heap_size, eth_iterator_hack, mem>>
             ELSE panic_msg' # "invalid number of arguments"]_vars

\* after a hook that interned an object, a hook of three parameters was
\* invoked with four words
C10_Witness ==
    /\ pc = "panic" /\ panic_msg = "invalid number of arguments"
    /\ last.name = "_CFDictionarySetValue" /\ Len(last.args) = 4
    /\ Len(cf_objects) = 1

---------------------------------------------------------------------------
(* Properties of call and of the hook dispatch.                            *)

\* C8: call(addr, args) stores the sentinel STOP_ADDR in the stack slot below
\* the stack pointer it found, puts the first six arguments into RDI, RSI,
\* RDX, RCX, R8, R9 and the others, in order, into the slots below the
\* sentinel, and starts execution at addr; the emulation goes on while RIP is
\* not the sentinel, and when RIP is the sentinel call returns what RAX holds.
C8_CallMarshals ==
    [][/\ (~emu.active /\ emu'.active)
          => LET args == emu'.args
                 sp == Val(regs["RSP"])
                 extra == IF Len(args) > 6 THEN Len(args) - 6 ELSE 0
             IN  /\ mem_read(mem', W(sp - 8), 8) = to_le_bytes(W(STOP_ADDR))
                 /\ \A i \in 1..Len(args) :
                       IF i <= 6
                       THEN regs'[ARG_REGISTERS[i]] = args[i]
                       ELSE mem_read(mem', W(sp - 8 - 8 * (i - 6)), 8)
                                = to_le_bytes(args[i])
                 /\ regs'["RSP"] = W(sp - 8 - 8 * extra)
                 /\ regs'["RIP"] = emu'.addr
                 /\ pc' = "emu"
       /\ (emu.active /\ emu'.active) => Rip # W(STOP_ADDR)
       /\ (emu.active /\ pc' = "ready")
          => /\ Rip = W(STOP_ADDR)
             /\ ~emu'.active
             /\ emu'.returned = <<regs["RAX"]>>]_vars

\* a call with eight arguments of the function that pops two words into RAX
\* has returned the seventh argument
C8_Witness ==
    /\ pc = "ready" /\ emu.returned = <<W(17)>>
    /\ emu.addr = InImage(528)
    /\ Len(emu.args) = 8 /\ emu.args[7] = W(17)

\* the argument words the calling convention holds for a hook of n parameters
\* on entry: the registers, then the stack above the return address
ConventionArgs(n) ==
    [i \in 1..n |-> IF i <= 6 THEN regs[ARG_REGISTERS[i]]
                    ELSE from_le_bytes(mem_read(mem, W(Val(regs["RSP"]) + 8 * (i - 6)), 8))]

\* C9: hook dispatch.  When the code hook runs at an address of
\* resolved_hooks, the hook of that name is invoked with as many words as it
\* declares parameters, read from the argument registers and the stack, and
\* the value it returns is in RAX before the return stub executes.
C9_Dispatch ==
    [][(/\ pc = "emu" /\ emu.active /\ ~emu.hooked /\ emu'.hooked
        /\ Val(Rip) \in DOMAIN resolved_hooks
        /\ resolved_hooks[Val(Rip)] \in hooks)
       => LET name == resolved_hooks[Val(Rip)]
          IN  /\ last'.name = name
              /\ last'.args = ConventionArgs(HookArgs(name))
              /\ last'.ok
              /\ regs'["RAX"] = last'.ret]_vars

---------------------------------------------------------------------------
(* The hooks that resolve a handle.                                        *)

\* the hooks that read cf_objects at a handle, with the positions of their
\* handle arguments
ResolvedArgs ==
    [ _CFGetTypeID |-> {1}, _CFDataGetLength |-> {1}, _CFDataGetBytes |-> {1},
      _CFStringGetLength |-> {1}, _CFStringGetCString |-> {1},
      _CFDictionaryGetValue |-> {1, 2}, _CFDictionarySetValue |-> {1, 2, 3} ]

\* one registry query for a string, one for a byte buffer
ResolveKeys == Seqs4({W(1)}, {InImage(0), InImage(32)}, {W(0)}, {W(0)})

\* every handle, with one choice of the other arguments
ResolveIn(name) ==
    CASE name = "_CFDataGetBytes" -> Seqs4(Handles, {W(1)}, {W(3)}, {InHook})
      [] name = "_CFStringGetCString" -> Seqs4(Handles, {InHook}, {W(2), W(300)}, {W(1536)})
      [] OTHER -> In(name)

NextResolve ==
    \/ setup
    \/ MapEnvironment
    \/ \E args \in ResolveKeys : Invoke(MaxResolveCalls, _IORegistryEntryCreateCFProperty(args))
    \/ \E args \in In("_DADiskCopyDescription") : Invoke(MaxResolveCalls, _DADiskCopyDescription(args))
    \/ \E args \in In("_CFGetTypeID") : Invoke(MaxResolveCalls, _CFGetTypeID(args))
    \/ \E args \in In("_CFDataGetLength") : Invoke(MaxResolveCalls, _CFDataGetLength(args))
    \/ \E args \in ResolveIn("_CFDataGetBytes") : Invoke(MaxResolveCalls, _CFDataGetBytes(args))
    \/ \E args \in In("_CFStringGetLength") : Invoke(MaxResolveCalls, _CFStringGetLength(args))
    \/ \E args \in ResolveIn("_CFStringGetCString") : Invoke(MaxResolveCalls, _CFStringGetCString(args))
    \/ \E args \in In("_CFDictionaryGetValue") : Invoke(MaxResolveCalls, _CFDictionaryGetValue(args))
    \/ \E args \in In("_CFDictionarySetValue") : Invoke(MaxResolveCalls, _CFDictionarySetValue(args))

SpecResolve == Init /\ [][NextResolve]_vars

\* the handle arguments of an invocation that the hook looks up in the table: all
\* of them but the sentinel key of _CFDictionaryGetValue
Looked(inv) ==
    {p \in ResolvedArgs[inv.name] :
        ~(inv.name = "_CFDictionaryGetValue" /\ p = 2 /\ inv.args[2] = SentinelKey)}

\* h is 0 or greater than the length of the table
OutOfRange(objs, h) == ~(IsSmall(h) /\ 1 <= Val(h) /\ Val(h) <= Len(objs))

\* what a hook that returned has read at its handles, in terms of the object
\* at position h of the table (counted from 1) before the inv
ReadsAt(inv, objs, objs2, m2) ==
    LET o(p) == objs[Val(inv.args[p])]
    IN  CASE inv.name = "_CFGetTypeID" ->
                inv.ret = (IF o(1).tag = "Data" THEN W(1) ELSE W(2))
                /\ o(1).tag \in {"Data", "String"}
          [] inv.name = "_CFDataGetLength" ->
                o(1).tag = "Data" /\ inv.ret = W(Len(o(1).bytes))
          [] inv.name = "_CFStringGetLength" ->
                o(1).tag = "String" /\ inv.ret = W(Len(o(1).bytes))
          [] inv.name = "_CFDataGetBytes" ->
                /\ o(1).tag = "Data"
                /\ mem_read(m2, inv.args[4], Val(inv.ret))
                     = SubSeq(o(1).bytes, Val(inv.args[2]) + 1, Val(inv.args[3]))
          [] inv.name = "_CFStringGetCString" ->
                /\ o(1).tag = "String"
                /\ mem_read(m2, inv.args[2], Val(inv.ret))
                     = SubSeq(o(1).bytes, 1, Val(inv.ret))
          [] inv.name = "_CFDictionaryGetValue" ->
                LET key == IF inv.args[2] = SentinelKey THEN VolumeUUIDKey
                           ELSE o(2).bytes
                IN  /\ o(1).tag = "Dictionary"
                    /\ inv.args[2] # SentinelKey => o(2).tag = "String"
                    /\ objs2 = Append(objs, o(1).dict[key])
          [] inv.name = "_CFDictionarySetValue" ->
                /\ o(1).tag = "Dictionary" /\ o(2).tag = "String"
                /\ Len(objs2) = Len(objs)
                /\ objs2[Val(inv.args[1])].dict[o(2).bytes] = o(3)

\* C11: resolve(handle).  A hook that looks a handle up in the table and
\* returns has read the object at that position, counted from 1; when any
\* handle it is given is 0 or greater than the length of the table, the hook
\* panics and the table is unchanged, the panic being that of the missing
\* object unless _CFDictionarySetValue has already rejected its key as no
\* string.
C11_Resolve ==
    [][(/\ Len(hist') = Len(hist) + 1
        /\ last'.name \in DOMAIN ResolvedArgs
        /\ Len(last'.args) = HookArgs(last'.name))
       => LET bad == {p \in Looked(last') : OutOfRange(cf_objects, last'.args[p])}
          IN  IF bad # {}
              THEN /\ ~last'.ok /\ pc' = "panic"
                   /\ cf_objects' = cf_objects
                   /\ \/ \E p \in bad : panic_msg' = NoObject(last'.args[p])
                      \/ /\ last'.name = "_CFDictionarySetValue"
                         /\ 2 \notin bad
                         /\ panic_msg' = "invalid key"
              ELSE last'.ok => ReadsAt(last', cf_objects, cf_objects', mem')]_vars

\* a hook was given the first handle not yet issued, in a table of two
C11_Witness ==
    /\ pc = "panic" /\ Len(cf_objects) = 2
    /\ last.name = "_CFDictionarySetValue"
    /\ last.args = <<W(2), W(1), W(3)>>
    /\ cf_objects[1].tag = "String" /\ cf_objects[2].tag = "Dictionary"

---------------------------------------------------------------------------
(* Properties of the dictionary lookup and of the registry query.          *)

\* the key _CFDictionaryGetValue looks up for the key argument kh
LookupKey(objs, kh) ==
    IF kh = SentinelKey THEN VolumeUUIDKey ELSE objs[Val(kh)].bytes

\* C12: a missing key is fatal.  _CFDictionaryGetValue(d, k) on a dictionary
\* d without an entry for the key (the text of the string at k, or the volume
\* UUID key for the sentinel) panics with "key not found": it returns no
\* handle and the handle table stays as it was.
C12_KeyNotFound ==
    [][(/\ Len(hist') = Len(hist) + 1
        /\ last'.name = "_CFDictionaryGetValue"
        /\ Len(last'.args) = 2
        /\ ~OutOfRange(cf_objects, last'.args[1])
        /\ cf_objects[Val(last'.args[1])].tag = "Dictionary"
        /\ \/ last'.args[2] = SentinelKey
           \/ /\ ~OutOfRange(cf_objects, last'.args[2])
              /\ cf_objects[Val(last'.args[2])].tag = "String"
        /\ LookupKey(cf_objects, last'.args[2])
              \notin DOMAIN cf_objects[Val(last'.args[1])].dict)
       => /\ ~last'.ok
          /\ pc' = "panic" /\ panic_msg' = "key not found"
          /\ cf_objects' = cf_objects
          /\ issued' = issued]_vars

\* a dictionary with an entry was asked for the text of another string
C12_Witness ==
    /\ pc = "panic" /\ panic_msg = "key not found"
    /\ last.name = "_CFDictionaryGetValue" /\ last.args[2] # SentinelKey
    /\ DOMAIN cf_objects[Val(last.args[1])].dict # {}


\* C13: the registry query.  _IORegistryEntryCreateCFProperty whose key
\* argument points at a descriptor of a property name: when the fixture
\* dataset has the name, the hook appends exactly one object, a byte buffer
\* for a data fixture and a string for a string fixture, holding the
\* fixture's bytes, and returns its handle (the new length of the table);
\* when the fixture lacks the name, it returns 0 and the table is unchanged.
C13_RegistryQuery ==
    [][(/\ Len(hist') = Len(hist) + 1
        /\ last'.name = "_IORegistryEntryCreateCFProperty"
        /\ Len(last'.args) = 4
        /\ \A r \in parse_cfstr_ptr(last'.args[2]) : r.panic = "")
       => LET key == (CHOOSE r \in parse_cfstr_ptr(last'.args[2]) : TRUE).str
          IN  IF key \in DOMAIN FakeIokit
              THEN /\ last'.ok
                   /\ Len(cf_objects') = Len(cf_objects) + 1
                   /\ SubSeq(cf_objects', 1, Len(cf_objects)) = cf_objects
                   /\ cf_objects'[Len(cf_objects')].tag = FakeIokit[key].kind
                   /\ cf_objects'[Len(cf_objects')].bytes = FakeIokit[key].bytes
                   /\ last'.ret = W(Len(cf_objects'))
              ELSE /\ last'.ok
                   /\ last'.ret = W(0)
                   /\ cf_objects' = cf_objects]_vars

\* a query that interned nothing was followed by one for a data
\* fixture, which is now the only object of the table
C13_Witness ==
    /\ hist = <<"_IORegistryEntryCreateCFProperty", "_IORegistryEntryCreateCFProperty">>
    /\ last.ok /\ last.args[2] = InImage(32)
    /\ last.ret = W(1)
    /\ cf_objects = <<CfData(<<1, 2, 3, 4>>)>>


---------------------------------------------------------------------------
(* Properties of the loader.                                               *)

\* the entries of the fat header of bin, by position
Entries(bin) == 1..from_be32(SubSeq(bin, 5, 8))

\* the entries for x86-64
X64Entries(bin) == {i \in Entries(bin) : ArchField(bin, i, 0) = CPU_TYPE_X86_64}

\* C14: the loader.  For a container that parses as a fat file and has an
\* entry for x86-64, get_x64_slice returns the bytes
\* binary[offset .. offset + size] of the first such entry: the slice is as
\* long as the entry's size field says, and it starts with the magic of the
\* Mach-O header that lies at the entry's offset.
C14_Loader ==
    (/\ x64_slice.done
     /\ OFile_parse(binary).kind = "FatFile"
     /\ X64Entries(binary) # {})
    => LET i == CHOOSE i \in X64Entries(binary) : \A j \in X64Entries(binary) : i <= j
           offset == ArchField(binary, i, 2)
           size == ArchField(binary, i, 3)
       IN  /\ x64_slice.panic = ""
           /\ x64_slice.slice = [p \in 1..size |-> binary[offset + p]]
           /\ Len(x64_slice.slice) = size
           /\ SubSeq(x64_slice.slice, 1, 4) = MachMagic64

\* the slice of the second entry of a container whose first is for arm64
C14_Witness ==
    /\ x64_slice.done /\ x64_slice.panic = ""
    /\ Len(x64_slice.slice) = 40
    /\ ArchField(binary, 1, 0) = 16777228
    /\ ArchField(binary, 2, 0) = CPU_TYPE_X86_64
    /\ ArchField(binary, 2, 2) = 96


\* the container is no fat file, has unreadable entries, or has no entry for
\* x86-64
Unloadable(bin) == OFile_parse(bin).kind # "FatFile" \/ X64Entries(bin) = {}

\* C15: the loader's failure.  Given a container that is malformed, is no
\* fat file, lacks the x86-64 entry or has an entry whose range leaves the
\* input, get_x64_slice comes back to its caller with an error value and
\* with no slice.
C15_FormatError ==
    (x64_slice.done /\ Unloadable(binary))
    => x64_slice.panic = "" /\ x64_slice.slice = <<>>


---------------------------------------------------------------------------
(* Properties of the driver.                                               *)

\* C16: a full generate() run returns text that is not empty and is the
\* base64 encoding of the bytes the emulated run produced, so that
\* base64_decode of what was returned gives those bytes back:
\* base64_decode(base64_encode(blob)) = blob.
C16_Generate ==
    (validation.done /\ validation.panic = "")
    => /\ validation.text # <<>>
       /\ validation.text = base64_encode(blob)
       /\ base64_decode(validation.text) = Ran(blob)
       /\ decoded.done => decoded = Ran(blob)

\* base64_decode(base64_encode(blob)) = blob, for the driver of mod.rs
RoundTrip ==
    (validation.done /\ validation.panic = "" /\ x64_slice = NotLoaded)
    => /\ validation = Ran(base64_encode(blob))
       /\ ((validation.text # <<>>) <=> (blob # <<>>))
       /\ base64_decode(validation.text) = Ran(blob)
       /\ decoded.done => decoded = Ran(blob)


---------------------------------------------------------------------------
(* Properties of two harness instances.                                    *)

\* what a Jelly was asked, in order: the hooks and their arguments
Asked(tr) == [i \in 1..Len(tr) |-> <<tr[i].name, tr[i].args>>]

\* C17: run independence.  A second instance is made with an empty handle
\* table, heap cursor 0 and the iterator flag cleared, and the first handle
\* an instance interns is 1; an invocation on one instance leaves the other
\* instance as it was; and two instances asked the same things have returned
\* the same results and hold equal tables, cursors and flags, whatever the
\* order the invocations on the two came in.
C17_Independence ==
    [][/\ (other'.made /\ ~other.made)
            => /\ other'.jelly.cf_objects = <<>>
               /\ other'.jelly.heap_size = W(0)
               /\ other'.jelly.eth_iterator_hack = FALSE
       /\ Len(hist') = Len(hist) + 1
            => /\ other' = other
               /\ calls'.that = calls.that
               /\ (issued = <<>> /\ issued' # <<>>) => last'.ret = W(1)
       /\ (other'.made /\ Asked(calls'.this) = Asked(calls'.that))
            => /\ calls'.this = calls'.that
               /\ cf_objects' = other'.jelly.cf_objects
               /\ heap_size' = other'.jelly.heap_size
               /\ eth_iterator_hack' = other'.jelly.eth_iterator_hack]_vars

\* the second instance has interned its first object, as handle 1, after
\* the first instance had interned two and allocated
C17_Witness ==
    /\ other.made
    /\ issued = <<W(1)>> /\ last.ret = W(1) /\ Len(calls.this) = 1
    /\ other.issued = <<W(1), W(2)>>
    /\ other.jelly.heap_size = W(24)
    /\ heap_size = W(0)


---------------------------------------------------------------------------
(* Properties of memory faults and of unresolved hook addresses.           *)

\* the hooks that write emulated memory
Writers ==
    {"___memset_chk", "_memcpy", "_CFDataGetBytes", "_CFStringGetCString",
     "_IOServiceGetMatchingServices", "___bzero", "_IORegistryEntryGetParentEntry"}

\* where the invocation inv writes, and how many bytes (for the two copying
\* hooks that returned, the number of bytes is what they returned)
WriteRange(inv) ==
    CASE inv.name = "___memset_chk" -> [addr |-> inv.args[1], len |-> inv.args[3]]
      [] inv.name = "_memcpy" -> [addr |-> inv.args[1], len |-> inv.args[3]]
      [] inv.name = "_CFDataGetBytes" -> [addr |-> inv.args[4], len |-> inv.ret]
      [] inv.name = "_CFStringGetCString" -> [addr |-> inv.args[2], len |-> inv.ret]
      [] inv.name = "_IOServiceGetMatchingServices" -> [addr |-> inv.args[3], len |-> W(1)]
      [] inv.name = "___bzero" -> [addr |-> inv.args[1], len |-> inv.args[2]]
      [] inv.name = "_IORegistryEntryGetParentEntry" -> [addr |-> inv.args[3], len |-> W(1)]

\* C18: a failed access to emulated memory is fatal and never ignored.  No
\* hook returns its normal result after a write it attempted has failed: a
\* hook that writes memory and returns has written a range that is mapped.
C18_MemoryFaultFatal ==
    [][(/\ Len(hist') = Len(hist) + 1
        /\ last'.name \in Writers
        /\ Len(last'.args) = HookArgs(last'.name)
        /\ last'.ok)
       => LET w == WriteRange(last')
          IN  IsSmall(w.len) /\ MemOk(w.addr, Val(w.len))]_vars


\* C19: an unresolved hook address.  When the instruction pointer enters an
\* address of the hook region that resolved_hooks has no entry for, the run
\* ends there as a fatal fault: the return stub at the address is not
\* executed as if a hook had run.
C19_UnresolvedTraps ==
    [][(/\ pc = "emu" /\ emu.active /\ ~emu.hooked /\ emu'.hooked
        /\ Val(Rip) \notin DOMAIN resolved_hooks)
       => pc' = "panic"]_vars


---------------------------------------------------------------------------
(* Properties of the disk description.                                     *)

\* C20: the disk description.  _DADiskCopyDescription appends one new
\* object, a dictionary whose only entry maps
\* "DADiskDescriptionVolumeUUIDKey" to a string equal to the fixture's root
\* disk UUID, and returns its handle; the _CFDictionaryGetValue that follows
\* it on that handle with the sentinel key appends that UUID string and
\* returns the handle of the string.
C20_DiskDescription ==
    [][/\ (/\ Len(hist') = Len(hist) + 1
           /\ last'.name = "_DADiskCopyDescription"
           /\ last'.args = <<>>)
          => /\ last'.ok
             /\ Len(cf_objects') = Len(cf_objects) + 1
             /\ SubSeq(cf_objects', 1, Len(cf_objects)) = cf_objects
             /\ last'.ret = W(Len(cf_objects'))
             /\ LET d == cf_objects'[Len(cf_objects')]
                IN  /\ d.tag = "Dictionary"
                    /\ DOMAIN d.dict = {VolumeUUIDKey}
                    /\ d.dict[VolumeUUIDKey].tag = "String"
                    /\ d.dict[VolumeUUIDKey].bytes = RootDiskUuid
       /\ (/\ Len(hist') = Len(hist) + 1
           /\ last.name = "_DADiskCopyDescription" /\ last.ok
           /\ last'.name = "_CFDictionaryGetValue"
           /\ last'.args = <<last.ret, SentinelKey>>)
          => /\ last'.ok
             /\ cf_objects' = Append(cf_objects, CfString(RootDiskUuid))
             /\ last'.ret = W(Len(cf_objects'))]_vars

\* a disk description was made as the second object of the table and the
\* sentinel key was then looked up in it
C20_Witness ==
    /\ Len(hist) = 3
    /\ hist[2] = "_DADiskCopyDescription" /\ hist[3] = "_CFDictionaryGetValue"
    /\ last.ok /\ last.args = <<W(2), SentinelKey>> /\ last.ret = W(3)
    /\ cf_objects[2].tag = "Dictionary"
    /\ cf_objects[3] = CfString(RootDiskUuid)


---------------------------------------------------------------------------
(* Properties of the address space.                                        *)

\* C21: the hook region.  After setup, and after any sequence of hook
\* invocations, every byte of the hook region
\* [HOOK_BASE, HOOK_BASE + HOOK_SIZE) is the return stub 0xC3.
C21_HookRegion ==
    pc # "new"
    => \A a \in DOMAIN mem : InRegion(a, HookRegion) => mem[a] = 195


\* the range [addr, addr + size) of the allocation x holds the address p
Holds(x, p) == Overlap(x, [addr |-> p, size |-> W(1)])

\* the allocation x is apart from the sentinel and from the hook region
Apart(x) ==
    /\ ~Holds(x, W(STOP_ADDR))
    /\ ~Overlap(x, [addr |-> W(HOOK_BASE), size |-> W(HOOK_SIZE)])

\* C22 as stated: after any sequence of _malloc calls no range returned
\* holds the sentinel return address or an address of the hook region.
C22_Partition == \A i \in 1..Len(allocs) : Apart(allocs[i])

\* C22, amended: every range returned while the heap base plus the sizes
\* allocated so far, that range included, is at most STOP_ADDR starts at or
\* above the heap base, ends at or below STOP_ADDR, and so holds neither the
\* sentinel nor an address of the hook region.
C22_BoundedPartition ==
    \A i \in 1..Len(allocs) :
        LET end == SumW(W(HEAP_BASE), SubSeq(Sizes(allocs), 1, i))
        IN  (~end.overflow /\ LeW(end.w, W(STOP_ADDR)))
            => /\ LeW(W(HEAP_BASE), allocs[i].addr)
               /\ AddW(allocs[i].addr, allocs[i].size).w = end.w
               /\ Apart(allocs[i])

\* allocations of 24 and 8 bytes lie below the sentinel, and a third one of
\* 0xD00000 bytes after them runs over the sentinel into the hook region
C22_Witness ==
    /\ Sizes(allocs) = <<W(24), W(8), W(HOOK_BASE)>>
    /\ Apart(allocs[1]) /\ Apart(allocs[2])
    /\ allocs[2].addr = W(HEAP_BASE + 24)
    /\ Holds(allocs[3], W(STOP_ADDR))
    /\ Holds(allocs[3], W(HOOK_BASE))


---------------------------------------------------------------------------
(* Properties of the memory hooks.                                         *)

\* C23: the bounded memset.  A ___memset_chk(dest, c, len, dest_len) that
\* returns changes only bytes inside [dest, dest + dest_len), whatever the
\* arguments, and every byte it changes becomes the low 8 bits of c.
C23_BoundedMemset ==
    [][(/\ Len(hist') = Len(hist) + 1
        /\ last'.name = "___memset_chk"
        /\ Len(last'.args) = 4
        /\ last'.ok)
       => LET dest == last'.args[1]
              c == last'.args[2]
              dest_len == last'.args[4]
          IN  \A a \in DOMAIN mem \cup DOMAIN mem' :
                  ByteAt(mem', a) # ByteAt(mem, a)
                  => /\ IsSmall(dest) /\ Val(dest) <= a
                     /\ LtW(W(a - Val(dest)), dest_len)
                     /\ ByteAt(mem', a) = AsU8(c)]_vars


---------------------------------------------------------------------------
(* Properties of the hooks as functions.                                   *)

\* every invocation made on either instance
Made == {calls.this[i] : i \in 1..Len(calls.this)}
            \cup {calls.that[i] : i \in 1..Len(calls.that)}

\* one hook, given the same arguments on Jellies in equal states
SameCall(x, y) ==
    /\ x.pre = y.pre
    /\ x.inv.name = y.inv.name
    /\ x.inv.args = y.inv.args

\* the object the invocation x put in the handle table
Pushed(x) == x.post.cf_objects[Len(x.post.cf_objects)]

\* the length of the host buffer the hook of x builds: an argument of
\* ___memset_chk, _memcpy and ___bzero, and for the registry query the length
\* field of the CFString its key points to, as parse_cfstr_ptr reads it
BufferLen(x) ==
    IF x.inv.name \in {"___memset_chk", "_memcpy"} THEN x.inv.args[3]
    ELSE IF x.inv.name = "___bzero" THEN x.inv.args[2]
    ELSE IF x.inv.name = "_IORegistryEntryCreateCFProperty"
         THEN from_be_bytes(SubSeq(mem_read(x.pre.mem, x.inv.args[2], 32), 25, 32))
    ELSE W0

\* what the hooks hand out of the fixture is the fixture as it was bundled,
\* whatever hooks ran before on either instance: the description holds the
\* root disk's UUID under the volume key, and a registry property is one of
\* the registry's values, under its own kind
FixtureKept ==
    \A x \in Made :
        /\ (x.inv.name = "_DADiskCopyDescription" /\ x.inv.ok)
              => Pushed(x) = CfDictionary(DictInsert(cf_dictionary_create_mutable.dict,
                                                     VolumeUUIDKey, CfString(RootDiskUuid)))
        /\ (x.inv.name = "_IORegistryEntryCreateCFProperty" /\ x.inv.ok
                /\ x.inv.ret # W0)
              => \E k \in DOMAIN FakeIokit :
                    /\ Pushed(x).tag = FakeIokit[k].kind
                    /\ Pushed(x).bytes = FakeIokit[k].bytes

---------------------------------------------------------------------------
(* Properties of the values of dictionaries.                               *)

\* the invocation inv is a _CFDictionarySetValue(d, k, v) that returned
IsSet(inv, d, k, v) ==
    inv.name = "_CFDictionarySetValue" /\ inv.ok /\ inv.args = <<d, k, v>>

\* C25: back-references.  After _CFDictionarySetValue(d, k, v) with v the
\* handle of another dictionary, and a later _CFDictionarySetValue(v, k2, x),
\* with no other store into d in between, the object that
\* _CFDictionaryGetValue(d, k) returns the handle of is the object at handle
\* v, with x under k2.
C25_BackReference ==
    LET tr == calls.this
        n == Len(tr)
    IN  \A i, j \in 1..n :
            (/\ i < j /\ j < n
             /\ tr[n].name = "_CFDictionaryGetValue" /\ tr[n].ok
             /\ Len(tr[n].args) = 2 /\ Len(tr[i].args) = 3 /\ Len(tr[j].args) = 3
             /\ IsSet(tr[i], tr[n].args[1], tr[n].args[2], tr[i].args[3])
             /\ tr[i].args[3] # tr[n].args[1]
             /\ IsSet(tr[j], tr[i].args[3], tr[j].args[2], tr[j].args[3])
             /\ cf_objects[Val(tr[i].args[3])].tag = "Dictionary"
             /\ \A m \in (i + 1)..(n - 1) :
                    ~(tr[m].name = "_CFDictionarySetValue"
                      /\ tr[m].args[1] = tr[n].args[1]))
            => cf_objects[Val(tr[n].ret)] = cf_objects[Val(tr[i].args[3])]


---------------------------------------------------------------------------
(* Properties of the stack at the start of a call.                         *)

\* C26: the stack at the start of a call.  When call(addr, args) starts the
\* execution at addr, with any number of arguments, the word at the stack
\* pointer is the sentinel STOP_ADDR, and the arguments after the sixth lie
\* in the slots above it, the seventh in the lowest one.
C26_SentinelOnTop ==
    [][(~emu.active /\ emu'.active)
       => LET args == emu'.args
              sp == Val(regs'["RSP"])
          IN  /\ mem_read(mem', W(sp), 8) = to_le_bytes(W(STOP_ADDR))
              /\ \A i \in 7..Len(args) :
                    mem_read(mem', W(sp + 8 * (i - 6)), 8) = to_le_bytes(args[i])]_vars


---------------------------------------------------------------------------
(* Properties of IMessageContainer.                                        *)

\* C27: finalization is one-shot.  Over any sequence of read, write and
\* finalize on one container the cipher is finalized at most once, and
\* exactly when the flag is set; a finish that finds the flag set returns no
\* bytes and leaves the cipher as it is, so a finalize after the first
\* writes no cipher output.
C27_OneShot ==
    /\ im.crypter.finalized <= 1
    /\ im.finalized <=> im.crypter.finalized = 1
    /\ Cardinality({i \in DOMAIN im.log : ~im.log[i].flag}) <= 1
    /\ \A i \in DOMAIN im.log :
          im.log[i].flag
          => /\ im.log[i].out = <<>>
             /\ ~im.log[i].touched
             /\ im.log[i].wrote = <<>>

\* after a write of two bytes, the container was finalized twice, and a read
\* at the end of the input has called finish a third time
C27_Witness ==
    /\ im.writer = "open" /\ Len(im.sink) = 2
    /\ Len(im.log) = 3
    /\ im.log[1].op = "finalize" /\ ~im.log[1].flag /\ im.log[1].touched
    /\ im.log[2].op = "finalize" /\ im.log[2].flag
    /\ im.log[3].op = "read" /\ im.log[3].flag
    /\ im.crypter.finalized = 1


---------------------------------------------------------------------------
(* Properties of IMessage.                                                 *)

\* to_raw has been called on the message m of the run, with result r
Sent(m, r) == im.made /\ im.msg = Some(m) /\ im.sent /\ im.raw = r

\* the messages to_raw takes an Option of that is None
Unwraps(m) ==
    \/ m.message.variant = "ChangeParticipants" /\ m.conversation[1].cv_name = None
    \/ /\ m.message.variant = "Message"
       /\ m.message.reply_guid # None /\ m.message.reply_part = None

\* C28 as stated: to_raw ends in the panic "no enc body!" exactly when
\* has_payload is false, and with has_payload true and a conversation present
\* it does not end in that panic and produces a body.
C28_PayloadConsistency ==
    im.made /\ im.msg # None /\ im.sent
    => LET m == im.msg[1]
           r == im.raw
       IN  /\ (r.panic = "no enc body!") <=> ~has_payload(m)
           /\ (has_payload(m) /\ m.conversation # None)
                 => (r.panic # "no enc body!" /\ r.body # None)

\* C28, amended: with a conversation present, to_raw ends in the panic
\* "no enc body!" exactly when has_payload is false, and with has_payload true
\* it produces a body unless it unwraps a missing group name or a missing
\* reply part, where it panics on the unwrap, or is an IconChange that finds
\* the clock before the epoch, where it panics with "Time went backwards";
\* with no conversation it panics on the unwrap of the conversation,
\* whatever the variant.
C28_PayloadWithConversation ==
    im.made /\ im.msg # None /\ im.sent
    => LET m == im.msg[1]
           r == im.raw
       IN  IF m.conversation = None
           THEN r.panic = UnwrapNone /\ r.body = None
           ELSE /\ (r.panic = "no enc body!") <=> ~has_payload(m)
                /\ has_payload(m)
                      => IF Unwraps(m) THEN r.panic = UnwrapNone /\ r.body = None
                         ELSE IF m.message.variant = "IconChange" /\ r.panic # ""
                         THEN r.panic = "Time went backwards" /\ r.body = None
                         ELSE r.panic = "" /\ r.body # None

\* to_raw of a typing indicator in a conversation has ended in the panic
C28_Witness ==
    /\ im.made /\ im.msg # None /\ im.sent
    /\ im.msg[1].message.variant = "Typing"
    /\ im.msg[1].conversation # None
    /\ im.raw.panic = "no enc body!"

\* from_raw finds in amk a part that is a u64 and a uuid, and in the wrapper
\* a msg_guid of 16 bytes
Decodable(amk, wrapper) ==
    /\ captures(amk) # None
    /\ parse(captures(amk)[1][1]).ok
    /\ Len(wrapper.msg_guid) = 16

\* the codes to_raw writes for a reaction
InCodes(amt) ==
    IsSmall(amt) /\ (Val(amt) \in 2000..2005 \/ Val(amt) \in 3000..3005)

\* C29: the reaction code.  The amt to_raw writes for a reaction and a value
\* of enable is read by from_raw as the same value of enable and the same
\* reaction; and on an amt outside 2000..=2005 and 3000..=3005 from_raw
\* yields no message, without a subtraction below zero and without a panic.
\* The bodies are those of a reaction whose amk holds a part and a uuid that
\* from_raw can take out, in a wrapper with a msg_guid of 16 bytes.
C29_ReactionCode ==
    (/\ im.made /\ im.parsed.done
     /\ im.raw.body[1].plist.kind = "RawReactMessage"
     /\ Decodable(im.raw.body[1].plist.amk, im.wrapper[1]))
    => LET amt == im.raw.body[1].plist.amt
           r == im.parsed
       IN  /\ im.msg # None
                => /\ r.panic = "" /\ r.message # None
                   /\ r.message[1].message.enable = im.msg[1].message.enable
                   /\ r.message[1].message.reaction = im.msg[1].message.reaction
           /\ ~InCodes(amt)
                => /\ r.panic = "" /\ r.message = None
                   /\ ~SubW(amt, IF LtW(amt, W(3000)) THEN W(2000) ELSE W(3000)).overflow

\* C30: sanity_check_send.  On a message with a conversation and a sender
\* it returns, leaving the sender_guid set and the sender among the
\* participants; a sender_guid that was set is kept, the participants are
\* kept when the sender is among them and get the sender appended when not,
\* nothing else of the message changes, and a second call changes nothing.
C30_SanityCheckSend ==
    [][(/\ im.made /\ im.msg # None /\ im'.checks = im.checks + 1
        /\ im.msg[1].conversation # None /\ im.msg[1].sender # None)
       => LET m == im.msg[1]
              n == im'.msg[1]
              c == m.conversation[1]
              d == n.conversation[1]
              sender == m.sender[1]
              among(ps) == \E i \in 1..Len(ps) : ps[i] = sender
          IN  /\ im'.panic = ""
              /\ d.sender_guid # None
              /\ among(d.participants)
              /\ c.sender_guid # None => d.sender_guid = c.sender_guid
              /\ d.participants = IF among(c.participants) THEN c.participants
                                  ELSE Append(c.participants, sender)
              /\ d.cv_name = c.cv_name
              /\ n = [m EXCEPT !.conversation = n.conversation]
              /\ im.checks >= 1 => n = m]_vars

\* checked twice, a message of Bob to a conversation that held Alice alone
\* and had no sender_guid has Bob after Alice and the sender_guid of the
\* first check
C30_Witness ==
    /\ im.made /\ im.msg # None /\ im.checks = 2 /\ im.panic = ""
    /\ im.msg[1].sender = Some(Bob)
    /\ im.msg[1].conversation[1].participants = <<Alice, Bob>>
    /\ im.msg[1].conversation[1].sender_guid
          = Some(Utf8("ffffffff-ffff-4fff-bfff-ffffffffffff"))

====
